---- MODULE Spec2Model ----
(***************************************************************************)
(* Release manager: Ticket / Snapshot / Notification stores                *)
(* (database/db_manager.py), the snapshot-diff notification engine         *)
(* (pages/notifications.py) and the background scheduler                   *)
(* (services/scheduler_service.py).                                        *)
(*                                                                         *)
(* The specifications share the variables below:                           *)
(*   Spec          the stores driven by the UI handlers and the weekly job *)
(*   SpecRetention notifications created, read, aged and cleaned up        *)
(*   SpecDiff      one run of notification generation from every bounded   *)
(*                 (snapshot, Ticket Store) pair                           *)
(*   SpecSched     the scheduler's start / stop / loop threads             *)
(*   SpecJobs      the loop thread running the two jobs on the stores      *)
(*   SpecHealth    SystemMonitor.get_system_health                         *)
(*   SpecStore     the store operations on a database that may fail        *)
(*   SpecSnapshots snapshot writes of two callers that may overlap         *)
(*   SpecReleases  create_release over the releases table                  *)
(*   SpecMalformed generation against snapshots of tickets that lack       *)
(*                 fields                                                  *)
(*   SpecNotifications notifications created, marked read and listed       *)
(***************************************************************************)
EXTENDS Integers, Sequences, FiniteSets, TLC

VARIABLES
    tickets,        \* jira_tickets table: primary key -> row
    snapshots,      \* weekly_snapshots table, rows in insertion order
    notifications,  \* notifications table, rows in insertion order
    violations,     \* convention_violations table, rows in insertion order
    next_id,        \* AUTOINCREMENT counters: [snap, notif]
    now,            \* the wall clock read by datetime.now() / CURRENT_TIMESTAMP
    last,           \* history: the last completed operation and its arguments
    rerun,          \* the release whose page st.rerun() is about to render, or NoRerun
    running,        \* SchedulerService.running
    scheduler_thread, \* SchedulerService.scheduler_thread: a thread id, 0 for None
    thread_pc,      \* position of every loop thread ever created
    caller_pc,      \* position of the foreground caller inside start()/stop()
    scheduler_instance, \* _scheduler_instance is not None
    schedule_jobs,  \* schedule.jobs: the registered jobs, in registration order
    health,         \* what get_system_health returned last: <<>> or <<report>>
    releases,       \* releases table: primary key -> row
    writers         \* create_weekly_snapshot calls under way: caller -> position and arguments

vars == <<tickets, snapshots, notifications, violations, next_id, now, last, rerun,
          running, scheduler_thread, thread_pc, caller_pc,
          scheduler_instance, schedule_jobs, health, releases, writers>>

store_vars == <<tickets, snapshots, notifications, violations, next_id, now, last, rerun>>
sched_vars == <<running, scheduler_thread, thread_pc, caller_pc,
                scheduler_instance, schedule_jobs, health, releases, writers>>

----------------------------------------------------------------------------
(* Values.  Python None is Null; the string 'None' is the sentinel of      *)
(* compare_tickets.                                                        *)

Null == "<null>"
NoRerun == "<no rerun>"

Keys == {"A", "B", "C"}
KeyOrder == <<"A", "B", "C">>
Releases == {"week2025.30", "week2025.31"}

\* fields_to_check of compare_tickets
fields_to_check == <<"status", "assignee", "priority", "summary">>

----------------------------------------------------------------------------
(* Sequence helpers *)

RECURSIVE SeqFilter(_, _)
SeqFilter(s, keep) ==
    IF s = <<>> THEN <<>>
    ELSE (IF Head(s) \in keep THEN <<Head(s)>> ELSE <<>>) \o SeqFilter(Tail(s), keep)

Range(s) == {s[i] : i \in 1..Len(s)}

\* dict.get(field): None when the key is absent
Get(t, f) == IF f \in DOMAIN t THEN t[f] ELSE Null

\* str(value) after "value if value is not None else 'None'"
OrNone(v) == IF v = Null THEN "None" ELSE v

----------------------------------------------------------------------------
(* Ticket shapes.  A tracker ticket (JiraService) carries issueType and    *)
(* updated; a Ticket Store row carries release_id, issue_type and          *)
(* updated_date, reporter, created_date, raw_data and last_synced.  A row  *)
(* is the dict get_tickets_for_release returns: raw_data is the value      *)
(* json.loads gives back.  The payload of raw_data (the whole tracker      *)
(* ticket) is one token, raw_ticket: nothing reads inside it.              *)

\* raw_data values: the tracker ticket, the empty dict
raw_ticket == "{ticket}"
empty_dict == "{}"

\* json.dumps / json.loads of a raw_data value
json_dumps(v) ==
    CASE v = Null       -> "null"
      [] v = empty_dict -> "'{}'"
      [] v = raw_ticket -> "'{ticket}'"

json_loads(text) ==
    CASE text = "null"       -> Null
      [] text = "'{}'"       -> empty_dict
      [] text = "'{ticket}'" -> raw_ticket

\* ticket_data built in check_for_new_changes / _create_weekly_snapshot
ticket_data_of(ticket, release_id) ==
    [key          |-> ticket["key"],
     release_id   |-> release_id,
     summary      |-> ticket["summary"],
     status       |-> ticket["status"],
     assignee     |-> Get(ticket, "assignee"),
     priority     |-> ticket["priority"],
     issue_type   |-> ticket["issueType"],
     reporter     |-> Get(ticket, "reporter"),
     created_date |-> ticket["created"],
     updated_date |-> ticket["updated"],
     raw_data     |-> raw_ticket]

\* the fields the ticket_data construction indexes with [] (KeyError when absent)
required_fields == {"key", "summary", "status", "priority", "issueType", "created", "updated"}

\* the raw_data column as written (json.dumps(ticket_data.get('raw_data', {})))
\* and read back (json.loads when the text is not empty)
raw_data_column(td) ==
    LET text == json_dumps(IF "raw_data" \in DOMAIN td THEN td["raw_data"] ELSE empty_dict)
    IN  IF text # "" THEN json_loads(text) ELSE text

\* an upsert that keeps, for a column the write leaves out, the prior value
upsert_jira_ticket_merging(store, td, synced_at) ==
    LET k == td["key"]
        kept(f) == IF f \in DOMAIN td \/ k \notin DOMAIN store THEN Get(td, f)
                   ELSE store[k][f]
    IN  [j \in DOMAIN store \cup {k} |->
            IF j = k
            THEN [key          |-> td["key"],
                  release_id   |-> td["release_id"],
                  summary      |-> kept("summary"),
                  status       |-> kept("status"),
                  assignee     |-> kept("assignee"),
                  priority     |-> kept("priority"),
                  issue_type   |-> kept("issue_type"),
                  reporter     |-> kept("reporter"),
                  created_date |-> kept("created_date"),
                  updated_date |-> kept("updated_date"),
                  raw_data     |-> IF "raw_data" \in DOMAIN td \/ k \notin DOMAIN store
                                   THEN raw_data_column(td) ELSE store[k]["raw_data"],
                  last_synced  |-> synced_at]
            ELSE store[j]]

\* DatabaseManager.upsert_jira_ticket: INSERT OR REPLACE by primary key;
\* last_synced is not in the column list and takes its default, the time of
\* the write
upsert_jira_ticket(store, td, synced_at) ==
    [k \in DOMAIN store \cup {td["key"]} |->
        IF k = td["key"]
        THEN [key          |-> td["key"],
              release_id   |-> td["release_id"],
              summary      |-> Get(td, "summary"),
              status       |-> Get(td, "status"),
              assignee     |-> Get(td, "assignee"),
              priority     |-> Get(td, "priority"),
              issue_type   |-> Get(td, "issue_type"),
              reporter     |-> Get(td, "reporter"),
              created_date |-> Get(td, "created_date"),
              updated_date |-> Get(td, "updated_date"),
              raw_data     |-> raw_data_column(td),
              last_synced  |-> synced_at]
        ELSE store[k]]

\* the upsert loop of check_for_new_changes / _create_weekly_snapshot
RECURSIVE upsert_all(_, _, _, _)
upsert_all(store, fetched, release_id, synced_at) ==
    IF fetched = <<>> THEN store
    ELSE upsert_all(upsert_jira_ticket(store, ticket_data_of(Head(fetched), release_id),
                                       synced_at),
                    Tail(fetched), release_id, synced_at)

\* the updated timestamps the tracker reports are 0..MaxUpdated
MaxUpdated == 2

\* rows of one release whose updated_date is u, in key order
RowsUpdatedAt(store, release_id, u) ==
    LET keep == {k \in DOMAIN store : /\ store[k]["release_id"] = release_id
                                      /\ store[k]["updated_date"] = u}
        ks == SeqFilter(KeyOrder, keep)
    IN  [i \in 1..Len(ks) |-> store[ks[i]]]

\* a query without the WHERE clause: the rows of every release
get_tickets_of_every_release(store, release_id) ==
    LET ks == SeqFilter(KeyOrder, DOMAIN store)
    IN  [i \in 1..Len(ks) |-> store[ks[i]]]

\* DatabaseManager.get_tickets_for_release: WHERE release_id = ? ORDER BY
\* updated_date DESC (rows with equal updated_date are listed in key order)
RECURSIVE tickets_updated_upto(_, _, _)
tickets_updated_upto(store, release_id, u) ==
    IF u < 0 THEN <<>>
    ELSE RowsUpdatedAt(store, release_id, u) \o tickets_updated_upto(store, release_id, u - 1)

get_tickets_for_release(store, release_id) ==
    tickets_updated_upto(store, release_id, MaxUpdated)

----------------------------------------------------------------------------
(* Snapshot Store *)

\* a snapshot write that replaces the snapshots of the release
create_weekly_snapshot_overwriting(snaps, id, release_id, tickets_data, date) ==
    LET others(sn) == sn["release_id"] # release_id
    IN  Append(SelectSeq(snaps, others),
               [id |-> id, release_id |-> release_id,
                snapshot_date |-> date, ticket_data |-> tickets_data])

\* DatabaseManager.create_weekly_snapshot: INSERT one row, snapshot_date = datetime.now()
create_weekly_snapshot(snaps, id, release_id, tickets_data, date) ==
    Append(snaps, [id |-> id, release_id |-> release_id,
                   snapshot_date |-> date, ticket_data |-> tickets_data])

\* a query without the WHERE clause: the latest snapshot of any release
last_snapshots_of_any_release(snaps, release_id) ==
    {snaps[i] : i \in {j \in 1..Len(snaps) :
                \A m \in 1..Len(snaps) : snaps[m]["snapshot_date"] <= snaps[j]["snapshot_date"]}}

\* DatabaseManager.get_last_snapshot: the rows ORDER BY snapshot_date DESC LIMIT 1
\* may return; empty when the release has no snapshot (None)
last_snapshots(snaps, release_id) ==
    LET mine == {i \in 1..Len(snaps) : snaps[i]["release_id"] = release_id}
    IN  {snaps[i] : i \in {j \in mine :
                \A m \in mine : snaps[m]["snapshot_date"] <= snaps[j]["snapshot_date"]}}

----------------------------------------------------------------------------
(* Diff Engine: generate_notifications_from_comparison / compare_tickets   *)

\* compare_tickets: one change per watched field whose normalised values differ
RECURSIVE compare_fields(_, _, _)
compare_fields(fields, previous_ticket, current_ticket) ==
    IF fields = <<>> THEN <<>>
    ELSE LET field == Head(fields)
             old_value == OrNone(Get(previous_ticket, field))
             new_value == OrNone(Get(current_ticket, field))
         IN  (IF old_value # new_value
              THEN <<[field |-> field, old_value |-> old_value, new_value |-> new_value]>>
              ELSE <<>>)
             \o compare_fields(Tail(fields), previous_ticket, current_ticket)

\* compare_tickets without the None handling: None and 'None' differ
compare_tickets_raw(previous_ticket, current_ticket) ==
    LET changed == SeqFilter(fields_to_check,
                             {f \in Range(fields_to_check) :
                                 Get(previous_ticket, f) # Get(current_ticket, f)})
    IN  [i \in 1..Len(changed) |->
            [field |-> changed[i],
             old_value |-> OrNone(Get(previous_ticket, changed[i])),
             new_value |-> OrNone(Get(current_ticket, changed[i]))]]

compare_tickets(previous_ticket, current_ticket) ==
    compare_fields(fields_to_check, previous_ticket, current_ticket)

\* {t['key']: t for t in list}: keys in order of first occurrence ...
RECURSIVE lookup_keys(_, _)
lookup_keys(list, seen) ==
    IF list = <<>> THEN <<>>
    ELSE IF Head(list)["key"] \in seen THEN lookup_keys(Tail(list), seen)
    ELSE <<Head(list)["key"]>> \o lookup_keys(Tail(list), seen \cup {Head(list)["key"]})

\* ... and for each key the last ticket listed with it
lookup_at(list, k) ==
    list[CHOOSE i \in 1..Len(list) :
            /\ list[i]["key"] = k
            /\ \A j \in (i + 1)..Len(list) : list[j]["key"] # k]

\* str.title() of a watched field name
Title(field) ==
    CASE field = "status"   -> "Status Changed"
      [] field = "assignee" -> "Assignee Changed"
      [] field = "priority" -> "Priority Changed"
      [] field = "summary"  -> "Summary Changed"

\* One loop iteration: the notifications it creates, or raised (KeyError on
\* ['summary']) with none created.
new_ticket_step(ticket_key, release_id, current_ticket) ==
    IF "summary" \notin DOMAIN current_ticket
    THEN [raised |-> TRUE, out |-> <<>>]
    ELSE [raised |-> FALSE, out |->
           <<[ticket_key |-> ticket_key, release_id |-> release_id,
              notification_type |-> "new_ticket", title |-> "New Ticket Added",
              message |-> <<"New ticket", ticket_key, "was added to the release">>,
              metadata |-> [ticket_summary |-> current_ticket["summary"]]]>>]

removed_ticket_step(ticket_key, release_id, previous_ticket) ==
    IF "summary" \notin DOMAIN previous_ticket
    THEN [raised |-> TRUE, out |-> <<>>]
    ELSE [raised |-> FALSE, out |->
           <<[ticket_key |-> ticket_key, release_id |-> release_id,
              notification_type |-> "removed_ticket", title |-> "Ticket Removed",
              message |-> <<"Ticket", ticket_key, "was removed from the release">>,
              metadata |-> [ticket_summary |-> previous_ticket["summary"]]]>>]

changed_ticket_step(ticket_key, release_id, previous_ticket, current_ticket) ==
    LET changes == compare_tickets(previous_ticket, current_ticket)
    IN  IF changes # <<>> /\ "summary" \notin DOMAIN current_ticket
        THEN [raised |-> TRUE, out |-> <<>>]
        ELSE [raised |-> FALSE, out |->
               [i \in 1..Len(changes) |->
                 [ticket_key |-> ticket_key, release_id |-> release_id,
                  notification_type |-> "field_changed",
                  title |-> Title(changes[i]["field"]),
                  message |-> <<ticket_key, changes[i]["field"], "changed from",
                                changes[i]["old_value"], "to", changes[i]["new_value"]>>,
                  metadata |-> [field |-> changes[i]["field"],
                                old_value |-> changes[i]["old_value"],
                                new_value |-> changes[i]["new_value"],
                                ticket_summary |-> current_ticket["summary"]]]]]

\* run the iterations in order until one raises
RECURSIVE run_steps(_)
run_steps(steps) ==
    IF steps = <<>> THEN [raised |-> FALSE, out |-> <<>>]
    ELSE IF Head(steps)["raised"] THEN [raised |-> TRUE, out |-> <<>>]
    ELSE LET rest == run_steps(Tail(steps))
         IN  [raised |-> rest["raised"], out |-> Head(steps)["out"] \o rest["out"]]

\* lines 97-146: the three loops, over the keys each of them selects
diff_events(release_id, previous_tickets, current_tickets, added, removed, kept) ==
    LET new_steps == [i \in 1..Len(added) |->
            new_ticket_step(added[i], release_id, lookup_at(current_tickets, added[i]))]
        removed_steps == [i \in 1..Len(removed) |->
            removed_ticket_step(removed[i], release_id,
                                lookup_at(previous_tickets, removed[i]))]
        changed_steps == [i \in 1..Len(kept) |->
            changed_ticket_step(kept[i], release_id,
                                lookup_at(previous_tickets, kept[i]),
                                lookup_at(current_tickets, kept[i]))]
    IN  run_steps(new_steps \o removed_steps \o changed_steps)

\* the diff without the loop of lines 110-121
diff_tickets_without_removed(release_id, previous_tickets, current_tickets) ==
    LET cur_keys  == lookup_keys(current_tickets, {})
        prev_keys == lookup_keys(previous_tickets, {})
    IN  diff_events(release_id, previous_tickets, current_tickets,
                    SeqFilter(cur_keys, Range(cur_keys) \ Range(prev_keys)),
                    <<>>,
                    SeqFilter(cur_keys, Range(cur_keys) \cap Range(prev_keys)))

\* lines 91-146: the two lookups and the membership tests of the loops
diff_tickets(release_id, previous_tickets, current_tickets) ==
    LET cur_keys  == lookup_keys(current_tickets, {})
        prev_keys == lookup_keys(previous_tickets, {})
    IN  diff_events(release_id, previous_tickets, current_tickets,
                    SeqFilter(cur_keys, Range(cur_keys) \ Range(prev_keys)),
                    SeqFilter(prev_keys, Range(prev_keys) \ Range(cur_keys)),
                    SeqFilter(cur_keys, Range(cur_keys) \cap Range(prev_keys)))

\* DatabaseManager.create_notification for each event, in order: is_read
\* defaults to FALSE, created_at to CURRENT_TIMESTAMP
RECURSIVE create_notifications(_, _, _, _)
create_notifications(rows, id, events, created_at) ==
    IF events = <<>> THEN rows
    ELSE create_notifications(
            Append(rows, [id |-> id,
                          ticket_key |-> Head(events)["ticket_key"],
                          release_id |-> Head(events)["release_id"],
                          notification_type |-> Head(events)["notification_type"],
                          title |-> Head(events)["title"],
                          message |-> Head(events)["message"],
                          is_read |-> FALSE,
                          created_at |-> created_at,
                          metadata |-> Head(events)["metadata"]]),
            id + 1, Tail(events), created_at)

----------------------------------------------------------------------------
(* The handlers as functions of the database.  A database value db is      *)
(* [tickets, snapshots, notifications, next_id, now]; every handler        *)
(* returns the database it leaves behind.  datetime.now() is read as       *)
(* db.now and successive snapshot timestamps are distinct: the clock has   *)
(* moved on by one unit when create_weekly_snapshot returns.               *)

insert_snapshot(db, release_id, tickets_data) ==
    [db EXCEPT !.snapshots = create_weekly_snapshot(@, db.next_id.snap, release_id,
                                                    tickets_data, db.now),
               !.next_id.snap = @ + 1,
               !.now = @ + 1]

insert_notifications(db, events) ==
    [db EXCEPT !.notifications = create_notifications(@, db.next_id.notif, events, db.now),
               !.next_id.notif = @ + Len(events)]

\* a generation that, finding no snapshot, reports every stored ticket as new
\* after recording the baseline
generate_notifications_baseline_diff(db, release_id, found) ==
    LET current_tickets  == get_tickets_for_release(db.tickets, release_id)
        previous_tickets == IF found = <<>> THEN <<>> ELSE found[1]["ticket_data"]
        base == IF found = <<>> THEN insert_snapshot(db, release_id, current_tickets) ELSE db
        r == diff_tickets(release_id, previous_tickets, current_tickets)
    IN  [db |-> insert_notifications(base, r["out"]),
         events |-> r["out"], error |-> r["raised"]]

\* generate_notifications_from_comparison; found is <<>> when get_last_snapshot
\* returned None and <<row>> otherwise
generate_notifications_from_comparison(db, release_id, found) ==
    IF found = <<>>
    THEN \* lines 80-85: baseline snapshot of the Ticket Store, no diff
         [db |-> insert_snapshot(db, release_id,
                                 get_tickets_for_release(db.tickets, release_id)),
          events |-> <<>>, error |-> FALSE]
    ELSE LET current_tickets  == get_tickets_for_release(db.tickets, release_id)
             previous_tickets == found[1]["ticket_data"]
             r == diff_tickets(release_id, previous_tickets, current_tickets)
         IN  [db |-> insert_notifications(db, r["out"]),
              events |-> r["out"], error |-> r["raised"]]

\* what get_last_snapshot may hand to the caller
found_snapshots(db, release_id) ==
    IF last_snapshots(db.snapshots, release_id) = {} THEN {<<>>}
    ELSE {<<s>> : s \in last_snapshots(db.snapshots, release_id)}

\* the tickets upserted before the loop meets one it cannot index (KeyError)
RECURSIVE upsertable_prefix(_)
upsertable_prefix(fetched) ==
    IF fetched = <<>> \/ ~(required_fields \subseteq DOMAIN Head(fetched)) THEN <<>>
    ELSE <<Head(fetched)>> \o upsertable_prefix(Tail(fetched))

\* a fetch-and-upsert that also drops the rows of the release the fetch lacks
store_fetched_pruning(db, release_id, fetched) ==
    LET upserted == upsert_all(db.tickets, upsertable_prefix(fetched), release_id, db.now)
        fetched_keys == {upsertable_prefix(fetched)[i]["key"] :
                            i \in 1..Len(upsertable_prefix(fetched))}
        kept == {k \in DOMAIN upserted :
                    upserted[k]["release_id"] = release_id => k \in fetched_keys}
    IN  [db EXCEPT !.tickets = [k \in kept |-> upserted[k]]]

\* check_for_new_changes up to line 67: fetch and upsert
store_fetched(db, release_id, fetched) ==
    [db EXCEPT !.tickets = upsert_all(@, upsertable_prefix(fetched), release_id, db.now)]

\* a check that records a snapshot of the Ticket Store after generating
check_for_new_changes_then_snapshot(db, release_id, fetched, found) ==
    LET stored == store_fetched(db, release_id, fetched)
        res == generate_notifications_from_comparison(stored, release_id, found)
    IN  IF upsertable_prefix(fetched) # fetched
        THEN [db |-> stored, events |-> <<>>, error |-> TRUE]
        ELSE IF found = <<>> THEN res
        ELSE [res EXCEPT !.db = insert_snapshot(@, release_id,
                                   get_tickets_for_release(@.tickets, release_id))]

\* check_for_new_changes: fetch, upsert, generate; a KeyError in the loop skips
\* the generation (lines 72-73)
check_for_new_changes(db, release_id, fetched, found) ==
    LET stored == store_fetched(db, release_id, fetched)
    IN  IF upsertable_prefix(fetched) # fetched
        THEN [db |-> stored, events |-> <<>>, error |-> TRUE]
        ELSE generate_notifications_from_comparison(stored, release_id, found)

\* SchedulerService._create_weekly_snapshot: fetch, upsert, snapshot of the
\* fetched list, snapshot_created notification
snapshot_created_event(release_id, fetched) ==
    [ticket_key |-> "SYSTEM", release_id |-> release_id,
     notification_type |-> "snapshot_created", title |-> "Weekly Snapshot Created",
     message |-> <<"Automated snapshot created for", release_id, "with", Len(fetched), "tickets">>,
     metadata |-> [ticket_count |-> Len(fetched)]]

weekly_snapshot_job(db, release_id, fetched) ==
    LET stored == store_fetched(db, release_id, fetched)
    IN  IF upsertable_prefix(fetched) # fetched
        THEN stored
        ELSE insert_notifications(insert_snapshot(stored, release_id, fetched),
                                  <<snapshot_created_event(release_id, fetched)>>)

\* NOTIFICATION_CONFIG['retention_days']
retention_days == 30

\* the first DELETE without "AND is_read = TRUE"
cleanup_notifications_of_any_state(rows, cutoff_date) ==
    LET keep(n) == ~(n["created_at"] < cutoff_date)
    IN  SelectSeq(rows, keep)

\* SchedulerService._cleanup_old_data: the three DELETE statements
cleanup_notifications(rows, cutoff_date) ==
    LET keep(n) == ~(n["created_at"] < cutoff_date /\ n["is_read"])
    IN  SelectSeq(rows, keep)

cleanup_snapshots(rows, cutoff_date) ==
    LET keep(sn) == ~(sn["snapshot_date"] < cutoff_date)
    IN  SelectSeq(rows, keep)

cleanup_violations(rows, cutoff_date) ==
    LET keep(v) == ~(v["detected_at"] < cutoff_date /\ v["resolved"])
    IN  SelectSeq(rows, keep)

\* an update that flips the flag of the row
mark_notification_read_toggling(rows, notification_id) ==
    [i \in 1..Len(rows) |->
        IF rows[i]["id"] = notification_id THEN [rows[i] EXCEPT !["is_read"] = ~@]
        ELSE rows[i]]

\* DatabaseManager.mark_notification_read: UPDATE ... SET is_read = TRUE WHERE id = ?
mark_notification_read(rows, notification_id) ==
    [i \in 1..Len(rows) |->
        IF rows[i]["id"] = notification_id THEN [rows[i] EXCEPT !["is_read"] = TRUE]
        ELSE rows[i]]

\* the ids the "Mark All as Read" loop passes to mark_notification_read
mark_all_read(rows, release_id) ==
    [i \in 1..Len(rows) |->
        IF rows[i]["release_id"] = release_id /\ ~rows[i]["is_read"]
        THEN [rows[i] EXCEPT !["is_read"] = TRUE]
        ELSE rows[i]]

----------------------------------------------------------------------------
(* Environment: what the tracker returns and how time passes               *)

JiraTicket(key, status, assignee, updated) ==
    [key |-> key, summary |-> "Sample ticket", status |-> status,
     assignee |-> assignee, priority |-> "High", issueType |-> "Story",
     reporter |-> "jane.smith", created |-> 0, updated |-> updated]

\* JiraService.get_tickets_for_release: the lists a fetch may return
TrackerResults ==
    { <<>>,
      <<JiraTicket("A", "To Do", Null, 1), JiraTicket("B", "Done", "john.doe", 0)>>,
      <<JiraTicket("A", "In Progress", Null, 2), JiraTicket("C", "To Do", Null, 0)>> }

\* the release the session (and the calendar) is at
SessionReleases == {"week2025.30"}

\* bounds of the store specification
MaxNotifications == 4
MaxSnapshots == 2

\* bounds of the retention specification
MaxRetainedNotifications == 3
MaxRetainedSnapshots == 2
MaxTime == 35
MaxIds == 6
RetentionResults ==
    { <<>>, <<JiraTicket("A", "To Do", Null, 1), JiraTicket("B", "Done", "john.doe", 0)>> }

\* time passes by the retention window, or by one unit more
TickSteps == {retention_days, retention_days + 1}

\* rows of convention_violations found in the database file; no handler of
\* the application inserts or resolves them
InitialViolations ==
    <<[id |-> 1, ticket_key |-> "A", release_id |-> "week2025.30",
       detected_at |-> 0, resolved |-> TRUE],
      [id |-> 2, ticket_key |-> "B", release_id |-> "week2025.30",
       detected_at |-> 0, resolved |-> FALSE]>>

----------------------------------------------------------------------------
(* The store specification *)

Db == [tickets |-> tickets, snapshots |-> snapshots, notifications |-> notifications,
       next_id |-> next_id, now |-> now]

SetDb(db) ==
    /\ tickets' = db.tickets
    /\ snapshots' = db.snapshots
    /\ notifications' = db.notifications
    /\ next_id' = db.next_id
    /\ now' = db.now

\* error: the operation reported a failure (returned False, showed or logged
\* an error); raised: an exception left the operation
NoOperation ==
    [op |-> "init", release_id |-> "", fetched |-> <<>>, id |-> 0, error |-> FALSE,
     raised |-> FALSE, created |-> 0, snapshots_added |-> 0]

\* SchedulerService._setup_schedules: the two schedule.every()...do() calls
registered_jobs == <<"_create_weekly_snapshot", "_cleanup_old_data">>

\* the scheduler as get_scheduler() has constructed it
SchedInit ==
    /\ running = FALSE
    /\ scheduler_thread = 0
    /\ thread_pc = <<>>
    /\ caller_pc = "idle"
    /\ scheduler_instance = TRUE
    /\ schedule_jobs = registered_jobs
    /\ health = <<>>
    /\ releases = <<>>
    /\ writers = <<>>

Init ==
    /\ tickets = <<>>
    /\ snapshots = <<>>
    /\ notifications = <<>>
    /\ violations = InitialViolations
    /\ next_id = [snap |-> 1, notif |-> 1]
    /\ now = 0
    /\ last = NoOperation
    /\ rerun = NoRerun
    /\ SchedInit

\* created and snapshots_added are the growth of the two tables in the step
\* (negative when rows were deleted)
Done(op, release_id, fetched, id, error) ==
    last' = [op |-> op, release_id |-> release_id, fetched |-> fetched,
             id |-> id, error |-> error, raised |-> FALSE,
             created |-> Len(notifications') - Len(notifications),
             snapshots_added |-> Len(snapshots') - Len(snapshots)]

\* ids of the unread notifications of a release (what display_notifications lists)
UnreadIds(rows, release_id) ==
    {rows[i]["id"] : i \in {j \in 1..Len(rows) :
        rows[j]["release_id"] = release_id /\ ~rows[j]["is_read"]}}

\* show_notifications without a button pressed: line 37
ShowNotifications(r) ==
    /\ rerun \in {NoRerun, r}
    /\ \E found \in found_snapshots(Db, r) :
         LET res == generate_notifications_from_comparison(Db, r, found)
         IN  /\ SetDb(res["db"])
             /\ Done("render", r, <<>>, 0, res["error"])
    /\ rerun' = NoRerun
    /\ UNCHANGED <<violations, sched_vars>>

\* "Check for Updates": check_for_new_changes, then st.rerun()
CheckForUpdates(r, fetched) ==
    /\ rerun = NoRerun
    /\ \E found \in found_snapshots(Db, r) :
         LET res == check_for_new_changes(Db, r, fetched, found)
         IN  /\ SetDb(res["db"])
             /\ Done("check", r, fetched, 0, res["error"])
    /\ rerun' = r
    /\ UNCHANGED <<violations, sched_vars>>

\* the "mark as read" button of one card: the script runs line 37 again, then
\* display_notification_card marks the notification and calls st.rerun()
MarkRead(r, id) ==
    /\ rerun = NoRerun
    /\ id \in UnreadIds(notifications, r)
    /\ \E found \in found_snapshots(Db, r) :
         LET res == generate_notifications_from_comparison(Db, r, found)
         IN  /\ SetDb([res["db"] EXCEPT !.notifications = mark_notification_read(@, id)])
             /\ Done("mark_read", r, <<>>, id, res["error"])
    /\ rerun' = r
    /\ UNCHANGED <<violations, sched_vars>>

\* "Mark All as Read": line 37, then the loop over the listed notifications
MarkAllRead(r) ==
    /\ rerun = NoRerun
    /\ UnreadIds(notifications, r) # {}
    /\ \E found \in found_snapshots(Db, r) :
         LET res == generate_notifications_from_comparison(Db, r, found)
         IN  /\ SetDb([res["db"] EXCEPT !.notifications = mark_all_read(@, r)])
             /\ Done("mark_all_read", r, <<>>, 0, res["error"])
    /\ rerun' = r
    /\ UNCHANGED <<violations, sched_vars>>

\* "Create Snapshot Now" of show_snapshot_info: shown when the release has a
\* snapshot; the script runs line 37 again, then snapshots the Ticket Store
CreateSnapshotNow(r) ==
    /\ rerun = NoRerun
    /\ last_snapshots(snapshots, r) # {}
    /\ \E found \in found_snapshots(Db, r) :
         LET res == generate_notifications_from_comparison(Db, r, found)
         IN  /\ SetDb(insert_snapshot(res["db"], r,
                                      get_tickets_for_release(res["db"].tickets, r)))
             /\ Done("snapshot_now", r, <<>>, 0, res["error"])
    /\ rerun' = r
    /\ UNCHANGED <<violations, sched_vars>>

\* "Create Snapshot" of the admin page: a snapshot of a fresh fetch, no upsert
AdminCreateSnapshot(r, fetched) ==
    /\ rerun = NoRerun
    /\ SetDb(insert_snapshot(Db, r, fetched))
    /\ Done("admin_snapshot", r, fetched, 0, FALSE)
    /\ UNCHANGED <<violations, rerun, sched_vars>>

\* the Friday job
WeeklySnapshotJob(r, fetched) ==
    /\ SetDb(weekly_snapshot_job(Db, r, fetched))
    /\ Done("weekly", r, fetched, 0, upsertable_prefix(fetched) # fetched)
    /\ UNCHANGED <<violations, rerun, sched_vars>>

\* the daily job
CleanupOldData ==
    LET cutoff_date == now - retention_days
    IN  /\ notifications' = cleanup_notifications(notifications, cutoff_date)
        /\ snapshots' = cleanup_snapshots(snapshots, cutoff_date)
        /\ violations' = cleanup_violations(violations, cutoff_date)
        /\ Done("cleanup", "", <<>>, 0, FALSE)
        /\ UNCHANGED <<tickets, next_id, now, rerun, sched_vars>>

Tick(d) ==
    /\ now' = now + d
    /\ UNCHANGED <<tickets, snapshots, notifications, violations, next_id, rerun, sched_vars>>
    /\ Done("tick", "", <<>>, 0, FALSE)

WithinBounds ==
    /\ Len(notifications) <= MaxNotifications
    /\ Len(snapshots) <= MaxSnapshots

\* the UI handlers and the weekly job
Next ==
    \/ \E r \in SessionReleases : ShowNotifications(r) /\ WithinBounds'
    \/ \E r \in SessionReleases, fetched \in TrackerResults :
            CheckForUpdates(r, fetched) /\ WithinBounds'
    \/ \E r \in SessionReleases : CreateSnapshotNow(r) /\ WithinBounds'
    \/ \E r \in SessionReleases, fetched \in TrackerResults :
            AdminCreateSnapshot(r, fetched) /\ WithinBounds'
    \/ \E r \in SessionReleases, fetched \in TrackerResults :
            WeeklySnapshotJob(r, fetched) /\ WithinBounds'

Spec == Init /\ [][Next]_vars

----------------------------------------------------------------------------
(* The retention specification: notifications are created, read and aged,  *)
(* and the daily job runs                                                  *)

RetentionWithinBounds ==
    /\ Len(notifications) <= MaxRetainedNotifications
    /\ Len(snapshots) <= MaxRetainedSnapshots
    /\ now <= MaxTime

RetentionNext ==
    \/ \E r \in SessionReleases : ShowNotifications(r) /\ RetentionWithinBounds'
    \/ \E r \in SessionReleases, fetched \in RetentionResults :
            WeeklySnapshotJob(r, fetched) /\ RetentionWithinBounds'
    \/ \E r \in SessionReleases, id \in 1..MaxIds : MarkRead(r, id) /\ RetentionWithinBounds'
    \/ \E r \in SessionReleases : MarkAllRead(r) /\ RetentionWithinBounds'
    \/ CleanupOldData
    \/ \E d \in TickSteps : Tick(d) /\ RetentionWithinBounds'

SpecRetention == Init /\ [][RetentionNext]_vars

----------------------------------------------------------------------------
(* The diff specification: one run of generate_notifications_from_         *)
(* comparison from every bounded pair of a latest snapshot and a Ticket    *)
(* Store.  Ticket A takes every combination of the values below on both    *)
(* sides; ticket B is present or absent on either side and may belong to   *)
(* another release in the store.                                           *)

DiffKeys == {"A", "B"}
DiffStatus == {"To Do", "In Progress"}
DiffAssignee == {Null, "None", "john.doe"}
DiffPriority == {"High", "Low"}
DiffSummary == {"Sample ticket", "Renamed ticket"}
DiffIssueType == {"Story", "Bug"}

\* tickets as the tracker returns them (snapshots of the weekly job and the admin page)
TrackerVariants(k) ==
    IF k = "A"
    THEN {[key |-> "A", summary |-> su, status |-> st, assignee |-> a, priority |-> pr,
           issueType |-> "Story", reporter |-> "jane.smith", created |-> 0,
           updated |-> 0] :
             su \in DiffSummary, st \in DiffStatus, a \in DiffAssignee, pr \in DiffPriority}
    ELSE {JiraTicket(k, "Done", "john.doe", 1)}

\* Ticket Store rows
RowVariants(k) ==
    IF k = "A"
    THEN {[key |-> "A", release_id |-> "week2025.30", summary |-> su, status |-> st,
           assignee |-> a, priority |-> pr, issue_type |-> it, reporter |-> "jane.smith",
           created_date |-> 0, updated_date |-> 0, raw_data |-> raw_ticket,
           last_synced |-> 0] :
             su \in DiffSummary, st \in DiffStatus, a \in DiffAssignee, pr \in DiffPriority,
             it \in DiffIssueType}
    ELSE {upsert_jira_ticket(<<>>, ticket_data_of(JiraTicket(k, "Done", "john.doe", 1), r),
                             0)[k] : r \in Releases}

\* the rows a baseline or manual snapshot of release week2025.30 holds
SnapshotRowVariants(k) ==
    {row \in RowVariants(k) : row["release_id"] = "week2025.30" /\ row["issue_type"] = "Story"}

AsList(f) ==
    LET ks == SeqFilter(KeyOrder, DOMAIN f)
    IN  [i \in 1..Len(ks) |-> f[ks[i]]]

Choices(S, V(_)) ==
    {f \in [S -> UNION {V(k) : k \in S}] : \A k \in S : f[k] \in V(k)}

DiffStores == UNION {Choices(S, RowVariants) : S \in SUBSET DiffKeys}

DiffPreviousLists ==
    UNION {{AsList(f) : f \in Choices(S, TrackerVariants)} \cup
           {AsList(f) : f \in Choices(S, SnapshotRowVariants)} : S \in SUBSET DiffKeys}

DiffInit ==
    /\ tickets \in DiffStores
    /\ snapshots \in {<<[id |-> 1, release_id |-> "week2025.30", snapshot_date |-> 0,
                        ticket_data |-> p]>> : p \in DiffPreviousLists}
    /\ notifications = <<>>
    /\ violations = <<>>
    /\ next_id = [snap |-> 2, notif |-> 1]
    /\ now = 1
    /\ last = NoOperation
    /\ rerun = NoRerun
    /\ SchedInit

\* the page is rendered once
DiffRun ==
    /\ last["op"] = "init"
    /\ \E r \in SessionReleases : ShowNotifications(r)

DiffNext == DiffRun

SpecDiff == DiffInit /\ [][DiffNext]_vars

----------------------------------------------------------------------------
(* The scheduler specification: SchedulerService.start / stop on the       *)
(* foreground thread and every loop thread _run_scheduler runs in.         *)
(* thread_pc[t] is where thread t stands:                                  *)
(*   "test"         about to evaluate "while self.running"                 *)
(*   "run_pending"  in schedule.run_pending(), no job started              *)
(*   "job"          inside the jobs run_pending found due                  *)
(*   "sleep"        in time.sleep(60)                                      *)
(*   "backoff"      in time.sleep(300) after an exception                  *)
(*   "exited"       the loop has returned                                  *)

MaxThreads == 3

Threads == 1..Len(thread_pc)
Alive == {t \in Threads : thread_pc[t] # "exited"}

StoreIdle ==
    /\ tickets = <<>>
    /\ snapshots = <<>>
    /\ notifications = <<>>
    /\ violations = <<>>
    /\ next_id = [snap |-> 1, notif |-> 1]
    /\ now = 0
    /\ rerun = NoRerun

SchedulerInit ==
    /\ StoreIdle
    /\ last = NoOperation
    /\ SchedInit

\* start, stop and the loop's own steps touch neither the stores nor the
\* registered jobs
UnchangedStore ==
    UNCHANGED <<tickets, snapshots, notifications, violations, next_id, now, rerun,
                scheduler_instance, schedule_jobs, health, releases, writers>>

\* SchedulerService.start; last.id is the thread it created, 0 when it created none
Start ==
    /\ caller_pc = "idle"
    /\ IF ~running
       THEN /\ Len(thread_pc) < MaxThreads
            /\ running' = TRUE
            /\ thread_pc' = Append(thread_pc, "test")
            /\ scheduler_thread' = Len(thread_pc) + 1
       ELSE UNCHANGED <<running, thread_pc, scheduler_thread>>
    /\ UNCHANGED caller_pc
    /\ UnchangedStore
    /\ Done("start", "", <<>>, IF running THEN 0 ELSE Len(thread_pc) + 1, FALSE)

\* SchedulerService.stop up to the join
StopBegin ==
    /\ caller_pc = "idle"
    /\ running' = FALSE
    /\ caller_pc' = IF scheduler_thread # 0 THEN "joining" ELSE "idle"
    /\ UNCHANGED <<thread_pc, scheduler_thread>>
    /\ UnchangedStore
    /\ Done("stop", "", <<>>, 0, FALSE)

\* join(timeout=5) returns because the thread has ended
JoinEnded ==
    /\ caller_pc = "joining"
    /\ thread_pc[scheduler_thread] = "exited"
    /\ caller_pc' = "idle"
    /\ UNCHANGED <<running, thread_pc, scheduler_thread>>
    /\ UnchangedStore
    /\ Done("stop_joined", "", <<>>, 0, FALSE)

\* join(timeout=5) returns because the five seconds are over: the thread is
\* in a job or in one of the two sleeps, all of which can outlast them
JoinTimeout ==
    /\ caller_pc = "joining"
    /\ thread_pc[scheduler_thread] \in {"job", "sleep", "backoff"}
    /\ caller_pc' = "idle"
    /\ UNCHANGED <<running, thread_pc, scheduler_thread>>
    /\ UnchangedStore
    /\ Done("stop_timeout", "", <<>>, 0, FALSE)

At(t, pc) == t \in Threads /\ thread_pc[t] = pc

Goto(t, pc) ==
    /\ thread_pc' = [thread_pc EXCEPT ![t] = pc]
    /\ UNCHANGED <<running, scheduler_thread, caller_pc, last>>
    /\ UnchangedStore

\* a loop that does not look at the flag
LoopTest_ignoring_flag(t) ==
    /\ At(t, "test")
    /\ Goto(t, "run_pending")

\* "while self.running"
LoopTest(t) ==
    /\ At(t, "test")
    /\ IF running THEN Goto(t, "run_pending") ELSE Goto(t, "exited")

\* schedule.run_pending(): a job is due, or none is, or the call raises
JobStart(t) ==
    /\ At(t, "run_pending")
    /\ Goto(t, "job")

JobEnd(t) ==
    /\ At(t, "job")
    /\ Goto(t, "sleep")

NothingPending(t) ==
    /\ At(t, "run_pending")
    /\ Goto(t, "sleep")

LoopError(t) ==
    /\ At(t, "run_pending")
    /\ Goto(t, "backoff")

\* time.sleep(60) / time.sleep(300) return
Wake(t) ==
    /\ At(t, "sleep") \/ At(t, "backoff")
    /\ Goto(t, "test")

LoopNext(t) ==
    \/ LoopTest(t)
    \/ JobStart(t)
    \/ JobEnd(t)
    \/ NothingPending(t)
    \/ LoopError(t)
    \/ Wake(t)

SchedulerNext ==
    \/ Start
    \/ StopBegin
    \/ JoinEnded
    \/ JoinTimeout
    \/ \E t \in 1..MaxThreads : LoopNext(t)

SpecSched == SchedulerInit /\ [][SchedulerNext]_vars

\* every thread is scheduled, sleeps and jobs end, and join returns
SchedulerFairness ==
    /\ \A t \in 1..MaxThreads : WF_vars(LoopNext(t))
    /\ WF_vars(JoinEnded \/ JoinTimeout)

SpecSchedLive == SchedulerInit /\ [][SchedulerNext]_vars /\ SchedulerFairness

----------------------------------------------------------------------------
(* The jobs specification: the loop threads run the two registered jobs on  *)
(* the stores.  A firing of the weekly job calls the tracker; a tracker     *)
(* call is [mode, fails, tickets]: mock mode returns the tickets; in api    *)
(* mode _fetch_from_jira_api returns [] from its exception handler when the *)
(* request fails, and None when its try block falls through.               *)

MaxJobThreads == 1

\* a ticket the tracker returned without its summary
MalformedTicket == [key |-> "B", status |-> "Done"]

JobResults ==
    { <<JiraTicket("A", "To Do", Null, 1)>>,
      <<JiraTicket("A", "In Progress", Null, 2), MalformedTicket>> }

TrackerCalls ==
    {[mode |-> "mock", fails |-> FALSE, tickets |-> l] : l \in JobResults}
    \cup {[mode |-> "api", fails |-> TRUE, tickets |-> <<>>],
          [mode |-> "api", fails |-> FALSE, tickets |-> <<>>]}

\* JiraService.get_tickets_for_release: the list handed to the caller, or None
fetch_tickets_for_release(call) ==
    IF call["mode"] = "mock" THEN [none |-> FALSE, tickets |-> call["tickets"]]
    ELSE IF call["fails"] THEN [none |-> FALSE, tickets |-> <<>>]
    ELSE [none |-> TRUE, tickets |-> <<>>]

\* a firing that creates the notification whether or not the snapshot was stored
weekly_snapshot_firing_notifying_always(db, release_id, call, snapshot_ok) ==
    LET fetch   == fetch_tickets_for_release(call)
        fetched == fetch["tickets"]
        stored  == store_fetched(db, release_id, fetched)
    IN  IF fetch["none"] THEN [db |-> db, error |-> TRUE]
        ELSE IF upsertable_prefix(fetched) # fetched THEN [db |-> stored, error |-> TRUE]
        ELSE IF ~snapshot_ok
        THEN [db |-> insert_notifications(stored,
                        <<snapshot_created_event(release_id, fetched)>>),
              error |-> TRUE]
        ELSE [db |-> weekly_snapshot_job(db, release_id, fetched), error |-> FALSE]

\* SchedulerService._create_weekly_snapshot with its exception handler:
\* iterating None raises TypeError before anything is written; a ticket
\* without a required field raises KeyError after the tickets before it were
\* upserted; create_weekly_snapshot returning False skips the notification
weekly_snapshot_firing(db, release_id, call, snapshot_ok) ==
    LET fetch   == fetch_tickets_for_release(call)
        fetched == fetch["tickets"]
        stored  == store_fetched(db, release_id, fetched)
    IN  IF fetch["none"] THEN [db |-> db, error |-> TRUE]
        ELSE IF upsertable_prefix(fetched) # fetched THEN [db |-> stored, error |-> TRUE]
        ELSE IF ~snapshot_ok THEN [db |-> stored, error |-> TRUE]
        ELSE [db |-> weekly_snapshot_job(db, release_id, fetched), error |-> FALSE]

WeeklyOp(call) ==
    IF call["mode"] = "mock" THEN "weekly"
    ELSE IF call["fails"] THEN "weekly_fetch_failed" ELSE "weekly_fetch_none"

\* a weekly job whose exception ends the loop thread
JobWeekly_uncaught(t, r, call, snapshot_ok) ==
    LET res == weekly_snapshot_firing(Db, r, call, snapshot_ok)
    IN  /\ At(t, "job")
        /\ SetDb(res["db"])
        /\ thread_pc' = [thread_pc EXCEPT ![t] = IF res["error"] THEN "exited" ELSE "sleep"]
        /\ Done(WeeklyOp(call), r, call["tickets"], 0, res["error"])
        /\ UNCHANGED <<violations, rerun, running, scheduler_thread, caller_pc,
                       scheduler_instance, schedule_jobs, health, releases, writers>>

\* run_pending runs the weekly job; the job returns and the loop goes to sleep
JobWeekly(t, r, call, snapshot_ok) ==
    LET res == weekly_snapshot_firing(Db, r, call, snapshot_ok)
    IN  /\ At(t, "job")
        /\ SetDb(res["db"])
        /\ thread_pc' = [thread_pc EXCEPT ![t] = "sleep"]
        /\ Done(WeeklyOp(call), r, call["tickets"], 0, res["error"])
        /\ UNCHANGED <<violations, rerun, running, scheduler_thread, caller_pc,
                       scheduler_instance, schedule_jobs, health, releases, writers>>

\* run_pending runs the daily job: the three DELETEs and the commit, or an
\* sqlite3 error before the commit, which the job's handler logs
JobCleanup(t, db_ok) ==
    LET cutoff_date == now - retention_days
    IN  /\ At(t, "job")
        /\ notifications' = IF db_ok THEN cleanup_notifications(notifications, cutoff_date)
                            ELSE notifications
        /\ snapshots' = IF db_ok THEN cleanup_snapshots(snapshots, cutoff_date)
                        ELSE snapshots
        /\ violations' = IF db_ok THEN cleanup_violations(violations, cutoff_date)
                         ELSE violations
        /\ thread_pc' = [thread_pc EXCEPT ![t] = "sleep"]
        /\ Done(IF db_ok THEN "cleanup" ELSE "cleanup_failed", "", <<>>, 0, ~db_ok)
        /\ UNCHANGED <<tickets, next_id, now, rerun, running, scheduler_thread, caller_pc,
                       scheduler_instance, schedule_jobs, health, releases, writers>>

JobsInit ==
    /\ tickets = <<>>
    /\ snapshots = <<>>
    /\ notifications = <<>>
    /\ violations = InitialViolations
    /\ next_id = [snap |-> 1, notif |-> 1]
    /\ now = 0
    /\ last = NoOperation
    /\ rerun = NoRerun
    /\ SchedInit

JobsLoopNext(t) ==
    \/ LoopTest(t)
    \/ JobStart(t)
    \/ NothingPending(t)
    \/ LoopError(t)
    \/ Wake(t)
    \/ \E r \in SessionReleases, call \in TrackerCalls, snapshot_ok \in BOOLEAN :
            JobWeekly(t, r, call, snapshot_ok) /\ WithinBounds'
    \/ \E db_ok \in BOOLEAN : JobCleanup(t, db_ok)

JobsNext ==
    \/ Start /\ Len(thread_pc') <= MaxJobThreads
    \/ StopBegin
    \/ JoinEnded
    \/ JoinTimeout
    \/ \E t \in 1..MaxJobThreads : JobsLoopNext(t)

SpecJobs == JobsInit /\ [][JobsNext]_vars

JobsFairness ==
    /\ \A t \in 1..MaxJobThreads : WF_vars(JobsLoopNext(t))
    /\ WF_vars(JoinEnded \/ JoinTimeout)

SpecJobsLive == JobsInit /\ [][JobsNext]_vars /\ JobsFairness

----------------------------------------------------------------------------
(* The store specification with failures: the operations of DatabaseManager *)
(* called one at a time on a database that may fail (db_ok = FALSE: the      *)
(* connection, the statement or the commit raises an sqlite3 error).        *)

\* the body of upsert_jira_ticket's try block: the exception it ends with
\* ("" for none) and the table it leaves
upsert_attempt(store, td, synced_at, db_ok) ==
    IF ~db_ok THEN [exc |-> "OperationalError", store |-> store]
    ELSE IF ~({"key", "release_id"} \subseteq DOMAIN td)
    THEN [exc |-> "KeyError", store |-> store]
    ELSE IF td["release_id"] = Null
    THEN [exc |-> "IntegrityError", store |-> store]    \* release_id TEXT NOT NULL
    ELSE [exc |-> "", store |-> upsert_jira_ticket(store, td, synced_at)]

\* a call that lets the KeyError of a ticket without key or release id through
upsert_call_propagating(store, td, synced_at, db_ok) ==
    LET a == upsert_attempt(store, td, synced_at, db_ok)
    IN  [returned |-> a["exc"] = "", raised |-> a["exc"] = "KeyError", store |-> a["store"]]

\* upsert_jira_ticket as its caller sees it: "except Exception" returns False
upsert_call(store, td, synced_at, db_ok) ==
    LET a == upsert_attempt(store, td, synced_at, db_ok)
    IN  [returned |-> a["exc"] = "", raised |-> FALSE, store |-> a["store"]]

\* the ticket_data dicts written: whole tickets, a ticket with only its key,
\* release and date, and dicts without key, without release id, with release
\* id None
WholeTicketData ==
    { ticket_data_of(JiraTicket("A", "To Do", Null, 1), "week2025.30"),
      ticket_data_of(JiraTicket("A", "Done", "john.doe", 0), "week2025.31"),
      ticket_data_of(JiraTicket("B", "Done", "john.doe", 0), "week2025.30") }

PartialTicketData ==
    { [key |-> "A", release_id |-> "week2025.30", updated_date |-> 0] }

MalformedTicketData ==
    { [release_id |-> "week2025.30", updated_date |-> 0],
      [key |-> "A", updated_date |-> 0],
      [key |-> "B", release_id |-> Null, updated_date |-> 0] }

UpsertInputs == WholeTicketData \cup PartialTicketData \cup MalformedTicketData

\* the ticket list a snapshot is created with
StoreSnapshotData == <<JiraTicket("A", "To Do", Null, 0)>>

MaxStoreSnapshots == 1
MaxStoreNotifications == 2

\* last.id is 1 when the key written had a row, last.fetched holds the dict
UpsertTicket(td, db_ok) ==
    LET res == upsert_call(tickets, td, now, db_ok)
    IN  /\ tickets' = res["store"]
        /\ UNCHANGED <<snapshots, notifications, violations, next_id, now, rerun, sched_vars>>
        /\ last' = [op |-> IF db_ok THEN "upsert" ELSE "upsert_db_failed",
                    release_id |-> "", fetched |-> <<td>>,
                    id |-> IF "key" \in DOMAIN td /\ td["key"] \in DOMAIN tickets
                           THEN 1 ELSE 0,
                    error |-> ~res["returned"], raised |-> res["raised"],
                    created |-> 0, snapshots_added |-> 0]

\* create_weekly_snapshot: True after the commit, False on an error
CreateSnapshot(r, tickets_data, db_ok) ==
    /\ SetDb(IF db_ok THEN insert_snapshot(Db, r, tickets_data) ELSE Db)
    /\ Done(IF db_ok THEN "create_snapshot" ELSE "create_snapshot_db_failed",
            r, tickets_data, 0, ~db_ok)
    /\ UNCHANGED <<violations, rerun, sched_vars>>

\* create_notification: True after the commit, False on an error
CreateNotification(r, db_ok) ==
    /\ SetDb(IF db_ok THEN insert_notifications(Db, <<snapshot_created_event(r, <<>>)>>)
             ELSE Db)
    /\ Done(IF db_ok THEN "create_notification" ELSE "create_notification_db_failed",
            r, <<>>, 0, ~db_ok)
    /\ UNCHANGED <<violations, rerun, sched_vars>>

\* the rows WHERE id = ? matches
RowsWithId(rows, id) ==
    LET hit(n) == n["id"] = id
    IN  SelectSeq(rows, hit)

\* mark_notification_read: True after the commit (whether or not a row has
\* the id), False on an error; last.fetched is the row matched, as it was
MarkNotificationRead(id, db_ok) ==
    /\ notifications' = IF db_ok THEN mark_notification_read(notifications, id)
                        ELSE notifications
    /\ UNCHANGED <<tickets, snapshots, violations, next_id, now, rerun, sched_vars>>
    /\ Done(IF db_ok THEN "mark_notification_read" ELSE "mark_notification_read_db_failed",
            "", RowsWithId(notifications, id), id, ~db_ok)

ReadOps == {"get_tickets_for_release", "get_ticket_statistics", "get_last_snapshot",
            "get_notifications"}

\* the four read operations have no exception handler: an sqlite3 error
\* leaves them as an exception
ReadStore(op, r, db_ok) ==
    /\ last' = [op |-> op, release_id |-> r, fetched |-> <<>>, id |-> 0,
                error |-> ~db_ok, raised |-> ~db_ok, created |-> 0, snapshots_added |-> 0]
    /\ UNCHANGED <<tickets, snapshots, notifications, violations, next_id, now, rerun,
                   sched_vars>>

StoreWithinBounds ==
    /\ Len(snapshots) <= MaxStoreSnapshots
    /\ Len(notifications) <= MaxStoreNotifications

StoreNext ==
    \/ \E td \in UpsertInputs, db_ok \in BOOLEAN : UpsertTicket(td, db_ok)
    \/ \E r \in SessionReleases, db_ok \in BOOLEAN :
            CreateSnapshot(r, StoreSnapshotData, db_ok) /\ StoreWithinBounds'
    \/ \E r \in SessionReleases, db_ok \in BOOLEAN :
            CreateNotification(r, db_ok) /\ StoreWithinBounds'
    \/ \E id \in 1..MaxStoreNotifications, db_ok \in BOOLEAN : MarkNotificationRead(id, db_ok)
    \/ \E op \in ReadOps, r \in SessionReleases, db_ok \in BOOLEAN : ReadStore(op, r, db_ok)

SpecStore == Init /\ [][StoreNext]_vars

----------------------------------------------------------------------------
(* The health specification: SystemMonitor.get_system_health called in a    *)
(* process that starts without a scheduler instance.  The clock counts      *)
(* days; one clock serves datetime.now() and CURRENT_TIMESTAMP.              *)

\* "hours_since_update < 24"
freshness_hours == 24

\* SystemMonitor._check_database_health
check_database_health(store, db_ok, clock) ==
    IF db_ok
    THEN [healthy |-> TRUE, ticket_count |-> Cardinality(DOMAIN store), last_check |-> clock]
    ELSE [healthy |-> FALSE, error |-> "database error", last_check |-> clock]

\* get_scheduler(): the jobs of the global schedule once the instance is
\* there; constructing the instance registers the two jobs
get_scheduler_jobs(instance, jobs) ==
    IF instance THEN jobs ELSE jobs \o registered_jobs

\* SystemMonitor._check_scheduler_health on the status get_scheduler_status returns
check_scheduler_health(is_running, jobs, clock) ==
    [healthy |-> is_running, jobs_count |-> Len(jobs), running |-> is_running,
     last_check |-> clock]

\* the latest last_synced of a non-empty list of rows
RECURSIVE max_last_synced(_)
max_last_synced(list) ==
    IF Len(list) = 1 THEN list[1]["last_synced"]
    ELSE LET rest == max_last_synced(Tail(list))
         IN  IF list[1]["last_synced"] > rest THEN list[1]["last_synced"] ELSE rest

\* a freshness check that reports an empty release as a failed check
check_data_freshness_without_reason(store, current_release, db_ok, clock) ==
    LET list == get_tickets_for_release(store, current_release)
    IN  IF ~db_ok \/ list = <<>>
        THEN [healthy |-> FALSE, error |-> "database error", last_check |-> clock]
        ELSE LET latest_update == max_last_synced(list)
                 hours_since_update == (clock - latest_update) * 24
             IN  [healthy |-> hours_since_update < freshness_hours,
                  hours_since_update |-> hours_since_update,
                  latest_update |-> latest_update, last_check |-> clock]

\* SystemMonitor._check_data_freshness
check_data_freshness(store, current_release, db_ok, clock) ==
    IF ~db_ok
    THEN [healthy |-> FALSE, error |-> "database error", last_check |-> clock]
    ELSE LET list == get_tickets_for_release(store, current_release)
         IN  IF list = <<>>
             THEN [healthy |-> FALSE, reason |-> "No tickets found for current release",
                   last_check |-> clock]
             ELSE LET latest_update == max_last_synced(list)
                      hours_since_update == (clock - latest_update) * 24
                  IN  [healthy |-> hours_since_update < freshness_hours,
                       hours_since_update |-> hours_since_update,
                       latest_update |-> latest_update, last_check |-> clock]

\* 1 for a component dict that reports healthy, 0 for one that does not
RECURSIVE health_scores(_)
health_scores(components) ==
    IF components = <<>> THEN <<>>
    ELSE (IF "healthy" \in DOMAIN Head(components)
          THEN <<IF Head(components)["healthy"] THEN 1 ELSE 0>> ELSE <<>>)
         \o health_scores(Tail(components))

RECURSIVE SeqSum(_)
SeqSum(s) == IF s = <<>> THEN 0 ELSE Head(s) + SeqSum(Tail(s))

\* an overall entry that is healthy as soon as one component is
overall_health_of_any(components) ==
    LET scores == health_scores(components)
    IN  [healthy |-> SeqSum(scores) > 0,
         score   |-> IF scores # <<>> THEN <<SeqSum(scores), Len(scores)>> ELSE <<0, 1>>]

\* health['overall']; the score sum / len is the pair <<sum, len>>
overall_health(components) ==
    LET scores == health_scores(components)
    IN  [healthy |-> SeqSum(scores) = Len(scores),
         score   |-> IF scores # <<>> THEN <<SeqSum(scores), Len(scores)>> ELSE <<0, 1>>]

\* SystemMonitor.get_system_health
get_system_health(store, current_release, is_running, jobs, db_ok, fresh_db_ok, clock) ==
    LET database       == check_database_health(store, db_ok, clock)
        scheduler      == check_scheduler_health(is_running, jobs, clock)
        data_freshness == check_data_freshness(store, current_release, fresh_db_ok, clock)
    IN  [database |-> database, scheduler |-> scheduler, data_freshness |-> data_freshness,
         overall |-> overall_health(<<database, scheduler, data_freshness>>)]

\* the clock of the health specification runs to MaxHealthTime days
MaxHealthTime == 2
MaxHealthThreads == 1

\* a call of get_system_health in the week current_release: db_ok and
\* fresh_db_ok tell whether the database answers the first and the third
\* check (last.error: it did not answer one of them)
GetSystemHealth(current_release, db_ok, fresh_db_ok) ==
    /\ caller_pc = "idle"
    /\ scheduler_instance' = TRUE
    /\ schedule_jobs' = get_scheduler_jobs(scheduler_instance, schedule_jobs)
    /\ health' = <<get_system_health(tickets, current_release, running, schedule_jobs',
                                     db_ok, fresh_db_ok, now)>>
    /\ UNCHANGED <<tickets, snapshots, notifications, violations, next_id, now, rerun,
                   running, scheduler_thread, thread_pc, caller_pc, releases, writers>>
    /\ Done("health", current_release, <<>>, 0, ~(db_ok /\ fresh_db_ok))

\* get_scheduler() called by the application
GetScheduler ==
    /\ caller_pc = "idle"
    /\ scheduler_instance' = TRUE
    /\ schedule_jobs' = get_scheduler_jobs(scheduler_instance, schedule_jobs)
    /\ UNCHANGED <<tickets, snapshots, notifications, violations, next_id, now, rerun,
                   running, scheduler_thread, thread_pc, caller_pc, health, releases,
                   writers>>
    /\ Done("get_scheduler", "", <<>>, 0, FALSE)

HealthInit ==
    /\ tickets = <<>>
    /\ snapshots = <<>>
    /\ notifications = <<>>
    /\ violations = InitialViolations
    /\ next_id = [snap |-> 1, notif |-> 1]
    /\ now = 0
    /\ last = NoOperation
    /\ rerun = NoRerun
    /\ running = FALSE
    /\ scheduler_thread = 0
    /\ thread_pc = <<>>
    /\ caller_pc = "idle"
    /\ scheduler_instance = FALSE
    /\ schedule_jobs = <<>>
    /\ health = <<>>
    /\ releases = <<>>
    /\ writers = <<>>

HealthNext ==
    \/ \E r \in Releases, db_ok \in BOOLEAN, fresh_db_ok \in BOOLEAN :
            GetSystemHealth(r, db_ok, fresh_db_ok)
    \/ GetScheduler
    \/ scheduler_instance /\ Start /\ Len(thread_pc') <= MaxHealthThreads
    \/ \E td \in WholeTicketData : UpsertTicket(td, TRUE)
    \/ Tick(1) /\ now' <= MaxHealthTime

SpecHealth == HealthInit /\ [][HealthNext]_vars

----------------------------------------------------------------------------
(* The snapshot specification: create_weekly_snapshot called by the weekly  *)
(* job (scheduler thread) and by a page handler (foreground), each call in  *)
(* two steps: the arguments are evaluated, datetime.now() among them, and   *)
(* then the INSERT is executed and committed.  SQLite runs the writes one   *)
(* after the other; the AUTOINCREMENT id follows the order of the commits.  *)

SnapshotCallers == {"weekly_job", "page"}

MaxRaceSnapshots == 2
MaxRaceTime == 2

\* the writes to the Ticket Store between the snapshots
RaceTicketData ==
    { ticket_data_of(JiraTicket("A", "To Do", Null, 1), "week2025.30"),
      ticket_data_of(JiraTicket("A", "Done", "john.doe", 0), "week2025.30") }

\* the ticket list each caller passes: the fetched list (weekly job), the
\* rows of the Ticket Store (page handlers)
snapshot_argument(caller, store, release_id) ==
    IF caller = "weekly_job" THEN StoreSnapshotData
    ELSE get_tickets_for_release(store, release_id)

\* create_weekly_snapshot up to the evaluation of its arguments
SnapshotBegin(caller, r) ==
    /\ caller \notin DOMAIN writers
    /\ writers' = [c \in DOMAIN writers \cup {caller} |->
                      IF c = caller
                      THEN [release_id |-> r, snapshot_date |-> now,
                            ticket_data |-> snapshot_argument(caller, tickets, r)]
                      ELSE writers[c]]
    /\ now' = now + 1
    /\ UNCHANGED <<tickets, snapshots, notifications, violations, next_id, rerun, last,
                   running, scheduler_thread, thread_pc, caller_pc,
                   scheduler_instance, schedule_jobs, health, releases>>

\* the INSERT and the commit; last.id is the id of the row written
SnapshotCommit(caller, db_ok) ==
    /\ caller \in DOMAIN writers
    /\ writers' = [c \in DOMAIN writers \ {caller} |-> writers[c]]
    /\ snapshots' = IF db_ok
                    THEN create_weekly_snapshot(snapshots, next_id["snap"],
                                                writers[caller]["release_id"],
                                                writers[caller]["ticket_data"],
                                                writers[caller]["snapshot_date"])
                    ELSE snapshots
    /\ next_id' = IF db_ok THEN [next_id EXCEPT !["snap"] = @ + 1] ELSE next_id
    /\ UNCHANGED <<tickets, notifications, violations, now, rerun,
                   running, scheduler_thread, thread_pc, caller_pc,
                   scheduler_instance, schedule_jobs, health, releases>>
    /\ Done(IF db_ok THEN "create_snapshot" ELSE "create_snapshot_db_failed",
            writers[caller]["release_id"], writers[caller]["ticket_data"],
            IF db_ok THEN next_id["snap"] ELSE 0, ~db_ok)

\* get_last_snapshot on a database that answers (ReadStore has the other
\* case): last.fetched is <<>> for None and <<row>> otherwise
GetLastSnapshot(r) ==
    /\ \E found \in found_snapshots(Db, r) :
         last' = [op |-> "get_last_snapshot", release_id |-> r,
                  fetched |-> found, id |-> 0,
                  error |-> FALSE, raised |-> FALSE, created |-> 0, snapshots_added |-> 0]
    /\ UNCHANGED <<tickets, snapshots, notifications, violations, next_id, now, rerun,
                   sched_vars>>

SnapshotsWithinBounds ==
    /\ Len(snapshots) + Cardinality(DOMAIN writers) <= MaxRaceSnapshots
    /\ now <= MaxRaceTime

SnapshotsNext ==
    \/ \E c \in SnapshotCallers, r \in Releases : SnapshotBegin(c, r) /\ SnapshotsWithinBounds'
    \/ \E c \in SnapshotCallers, db_ok \in BOOLEAN : SnapshotCommit(c, db_ok)
    \/ \E r \in Releases : GetLastSnapshot(r)
    \/ \E td \in RaceTicketData : UpsertTicket(td, TRUE)

SpecSnapshots == Init /\ [][SnapshotsNext]_vars

----------------------------------------------------------------------------
(* The notification specification: create_notification,                     *)
(* mark_notification_read and get_notifications over two releases, with a   *)
(* clock that lets rows share a created_at or not.                          *)

\* a query that lists the notifications of every release
get_notifications_of_every_release(rows, release_id, show_read) ==
    LET sel == {i \in 1..Len(rows) : show_read \/ ~rows[i]["is_read"]}
        n   == Cardinality(sel)
    IN  {[j \in 1..n |-> rows[g[j]]] :
            g \in {f \in [1..n -> sel] :
                    \A a, b \in 1..n :
                        a < b => /\ f[a] # f[b]
                                 /\ rows[f[a]]["created_at"] >= rows[f[b]]["created_at"]}}

\* DatabaseManager.get_notifications: WHERE release_id = ? [AND is_read =
\* FALSE] ORDER BY created_at DESC; the lists the query may return (rows of
\* equal created_at come in any order)
get_notifications(rows, release_id, show_read) ==
    LET sel == {i \in 1..Len(rows) : /\ rows[i]["release_id"] = release_id
                                     /\ (show_read \/ ~rows[i]["is_read"])}
        n   == Cardinality(sel)
    IN  {[j \in 1..n |-> rows[g[j]]] :
            g \in {f \in [1..n -> sel] :
                    \A a, b \in 1..n :
                        a < b => /\ f[a] # f[b]
                                 /\ rows[f[a]]["created_at"] >= rows[f[b]]["created_at"]}}

MaxListedNotifications == 3
MaxListTime == 1

\* get_notifications on a database that answers: last.fetched is the list
\* returned, last.id is 1 for show_read
GetNotifications(r, show_read) ==
    /\ \E list \in get_notifications(notifications, r, show_read) :
         last' = [op |-> "get_notifications", release_id |-> r, fetched |-> list,
                  id |-> IF show_read THEN 1 ELSE 0,
                  error |-> FALSE, raised |-> FALSE, created |-> 0, snapshots_added |-> 0]
    /\ UNCHANGED <<tickets, snapshots, notifications, violations, next_id, now, rerun,
                   sched_vars>>

NotificationsNext ==
    \/ \E r \in Releases, db_ok \in BOOLEAN :
            CreateNotification(r, db_ok) /\ Len(notifications') <= MaxListedNotifications
    \/ \E id \in 1..MaxListedNotifications, db_ok \in BOOLEAN : MarkNotificationRead(id, db_ok)
    \/ \E r \in Releases, show_read \in BOOLEAN : GetNotifications(r, show_read)
    \/ Tick(1) /\ now' <= MaxListTime

SpecNotifications == Init /\ [][NotificationsNext]_vars

----------------------------------------------------------------------------
(* The malformed-ticket specification: the admin page snapshots what the    *)
(* tracker returned as it is, so a ticket that lacks fields reaches the     *)
(* latest snapshot; the notification page then generates against it.        *)

\* a ticket that has its summary but lacks the watched fields assignee and priority
SparseTicket == [key |-> "A", summary |-> "Sample ticket", status |-> "To Do"]

\* tracker results with a ticket that lacks fields
MalformedResults ==
    { <<SparseTicket>>,
      <<JiraTicket("A", "To Do", Null, 1), MalformedTicket>>,
      <<MalformedTicket, JiraTicket("C", "To Do", Null, 0)>> }

MalformedNext ==
    \/ \E r \in SessionReleases, fetched \in MalformedResults :
            AdminCreateSnapshot(r, fetched) /\ WithinBounds'
    \/ \E r \in SessionReleases, fetched \in TrackerResults :
            CheckForUpdates(r, fetched) /\ WithinBounds'
    \/ \E r \in SessionReleases : ShowNotifications(r) /\ WithinBounds'

SpecMalformed == Init /\ [][MalformedNext]_vars

----------------------------------------------------------------------------
(* The release specification: create_release on the releases table.  Dates *)
(* are day numbers; created_at is the clock at the write.                   *)

\* DatabaseManager.create_release: INSERT OR REPLACE of (id, start_date,
\* end_date); created_at and status are not in the column list and take
\* their defaults, CURRENT_TIMESTAMP and 'active'
create_release(rels, release_id, start_date, end_date, created_at) ==
    [id \in DOMAIN rels \cup {release_id} |->
        IF id = release_id
        THEN [id |-> release_id, start_date |-> start_date, end_date |-> end_date,
              created_at |-> created_at, status |-> "active"]
        ELSE rels[id]]

\* the date pairs create_release is called with
ReleaseDates == {[start_date |-> 0, end_date |-> 6], [start_date |-> 7, end_date |-> 13]}

MaxReleaseTime == 2

\* create_release: True after the commit, False on an error; last.fetched
\* holds the dates passed, last.id is 1 when the release had a row
CreateRelease(release_id, dates, db_ok) ==
    /\ releases' = IF db_ok
                   THEN create_release(releases, release_id, dates["start_date"],
                                       dates["end_date"], now)
                   ELSE releases
    /\ UNCHANGED <<tickets, snapshots, notifications, violations, next_id, now, rerun,
                   running, scheduler_thread, thread_pc, caller_pc,
                   scheduler_instance, schedule_jobs, health, writers>>
    /\ Done(IF db_ok THEN "create_release" ELSE "create_release_db_failed",
            release_id, <<dates>>, IF release_id \in DOMAIN releases THEN 1 ELSE 0, ~db_ok)

ReleasesNext ==
    \/ \E r \in Releases, dates \in ReleaseDates, db_ok \in BOOLEAN :
            CreateRelease(r, dates, db_ok)
    \/ Tick(1) /\ now' <= MaxReleaseTime

SpecReleases == Init /\ [][ReleasesNext]_vars

----------------------------------------------------------------------------
(* Vocabulary of the properties *)

TicketKeys(list) == {list[i]["key"] : i \in 1..Len(list)}

StoreKeys(store, release_id) ==
    {k \in DOMAIN store : store[k]["release_id"] = release_id}

TicketOf(list, k) == list[CHOOSE i \in 1..Len(list) : list[i]["key"] = k]

\* two values of a watched field count as equal when they are the same or are
\* both absent (None or the text 'None')
SameWatched(a, b) == a = b \/ {a, b} \subseteq {Null, "None"}

WatchedFields == {"status", "assignee", "priority", "summary"}

Differing(previous_ticket, current_ticket) ==
    {f \in WatchedFields : ~SameWatched(Get(previous_ticket, f), Get(current_ticket, f))}

\* how many of the rows are of the type and about the ticket
CountOf(rows, type, k) ==
    Cardinality({i \in 1..Len(rows) :
        rows[i]["notification_type"] = type /\ rows[i]["ticket_key"] = k})

CountType(rows, type) ==
    Cardinality({i \in 1..Len(rows) : rows[i]["notification_type"] = type})

\* the ticket list of the latest snapshot of a release that has one
LatestData(snaps, release_id) ==
    (CHOOSE sn \in last_snapshots(snaps, release_id) : TRUE)["ticket_data"]

\* the rows a step appended to the Notification Store
Added == SubSeq(notifications', Len(notifications) + 1, Len(notifications'))

----------------------------------------------------------------------------
(* C1: a check-for-changes cycle whose release has a latest snapshot adds   *)
(* exactly one unread notification per difference between that snapshot    *)
(* and the fetch: removed_ticket for every snapshot ticket absent from the  *)
(* fetch, new_ticket for every fetched ticket absent from the snapshot,     *)
(* field_changed for every differing watched field of a ticket in both.     *)
C1_CycleReportsFetchAgainstSnapshot ==
    [][ (last'["op"] = "check" /\ last_snapshots(snapshots, last'["release_id"]) # {}) =>
          LET r       == last'["release_id"]
              prev    == LatestData(snapshots, r)
              fetched == last'["fetched"]
              A       == TicketKeys(prev)
              F       == TicketKeys(fetched)
          IN  /\ \A k \in Keys :
                    CountOf(Added, "removed_ticket", k) = (IF k \in A \ F THEN 1 ELSE 0)
              /\ \A k \in Keys :
                    CountOf(Added, "new_ticket", k) = (IF k \in F \ A THEN 1 ELSE 0)
              /\ \A k \in Keys :
                    CountOf(Added, "field_changed", k) =
                        (IF k \in A \cap F
                         THEN Cardinality(Differing(TicketOf(prev, k), TicketOf(fetched, k)))
                         ELSE 0)
              /\ \A i \in 1..Len(Added) : ~Added[i]["is_read"]
      ]_vars

----------------------------------------------------------------------------
(* C2: one run of notification generation against a latest snapshot with    *)
(* key set A, over a Ticket Store whose rows of the release have key set B, *)
(* leaves exactly one new_ticket notification for each key of B \ A, one    *)
(* removed_ticket notification for each key of A \ B, none for any other    *)
(* key, and no key has both.                                                *)
C2_NewAndRemovedFollowKeySets ==
    (last["op"] = "render" /\ last["snapshots_added"] = 0) =>
        LET r == last["release_id"]
            A == TicketKeys(LatestData(snapshots, r))
            B == StoreKeys(tickets, r)
        IN  /\ \A k \in Keys :
                  CountOf(notifications, "new_ticket", k) = (IF k \in B \ A THEN 1 ELSE 0)
            /\ \A k \in Keys :
                  CountOf(notifications, "removed_ticket", k) = (IF k \in A \ B THEN 1 ELSE 0)
            /\ CountType(notifications, "new_ticket") = Cardinality(B \ A)
            /\ CountType(notifications, "removed_ticket") = Cardinality(A \ B)
            /\ \A k \in Keys : ~(CountOf(notifications, "new_ticket", k) > 0
                                 /\ CountOf(notifications, "removed_ticket", k) > 0)

\* a run that found both a ticket to report new and one to report removed
C2_Witness ==
    /\ last["op"] = "render" /\ last["snapshots_added"] = 0
    /\ StoreKeys(tickets, last["release_id"])
         \ TicketKeys(LatestData(snapshots, last["release_id"])) # {}
    /\ TicketKeys(LatestData(snapshots, last["release_id"]))
         \ StoreKeys(tickets, last["release_id"]) # {}
    /\ CountType(notifications, "new_ticket") = 1
    /\ CountType(notifications, "removed_ticket") = 1

----------------------------------------------------------------------------
(* C3: for a ticket in both the snapshot and the Ticket Store, the run      *)
(* leaves one field_changed notification per watched field whose values     *)
(* differ (absent, None and 'None' being the same value), naming the field, *)
(* the old and the new value, and none for any other field.                 *)
C3_OneEventPerDifferingWatchedField ==
    (last["op"] = "render" /\ last["snapshots_added"] = 0) =>
        LET r    == last["release_id"]
            prev == LatestData(snapshots, r)
        IN  \A k \in TicketKeys(prev) \cap StoreKeys(tickets, r) :
              LET p == TicketOf(prev, k)
                  c == tickets[k]
                  about(f) == {i \in 1..Len(notifications) :
                      /\ notifications[i]["notification_type"] = "field_changed"
                      /\ notifications[i]["ticket_key"] = k
                      /\ notifications[i]["metadata"]["field"] = f}
              IN  /\ CountOf(notifications, "field_changed", k)
                        = Cardinality(Differing(p, c))
                  /\ \A i \in 1..Len(notifications) :
                        (notifications[i]["notification_type"] = "field_changed"
                         /\ notifications[i]["ticket_key"] = k)
                        => notifications[i]["metadata"]["field"] \in Differing(p, c)
                  /\ \A f \in Differing(p, c) :
                        /\ Cardinality(about(f)) = 1
                        /\ \A i \in about(f) :
                             /\ SameWatched(notifications[i]["metadata"]["old_value"], Get(p, f))
                             /\ SameWatched(notifications[i]["metadata"]["new_value"], Get(c, f))
                             /\ notifications[i]["metadata"]["old_value"] # Null
                             /\ notifications[i]["metadata"]["new_value"] # Null

\* a ticket in both whose only differing watched field is the assignee, set
\* from None to a name, while its issue type (not watched) differs too
C3_Witness ==
    /\ last["op"] = "render" /\ last["snapshots_added"] = 0
    /\ "A" \in TicketKeys(LatestData(snapshots, last["release_id"]))
    /\ "A" \in StoreKeys(tickets, last["release_id"])
    /\ Differing(TicketOf(LatestData(snapshots, last["release_id"]), "A"), tickets["A"])
         = {"assignee"}
    /\ tickets["A"]["issue_type"] = "Bug"
    /\ CountOf(notifications, "field_changed", "A") = 1
    /\ \E i \in 1..Len(notifications) :
         /\ notifications[i]["notification_type"] = "field_changed"
         /\ notifications[i]["metadata"]["old_value"] = "None"
         /\ notifications[i]["metadata"]["new_value"] = "john.doe"

----------------------------------------------------------------------------
(* C4: a generation run (page render or check for updates) for a release    *)
(* that has no snapshot creates no notification, appends exactly one        *)
(* snapshot, of that release, holding the rows the Ticket Store has for the *)
(* release, and reports no error.                                           *)
C4_BaselineCase ==
    [][ (last'["op"] \in {"render", "check"}
         /\ last_snapshots(snapshots, last'["release_id"]) = {}) =>
          LET r   == last'["release_id"]
              new == snapshots'[Len(snapshots')]
          IN  /\ notifications' = notifications
              /\ Len(snapshots') = Len(snapshots) + 1
              /\ SubSeq(snapshots', 1, Len(snapshots)) = snapshots
              /\ new["release_id"] = r
              /\ Range(new["ticket_data"]) = {tickets'[k] : k \in StoreKeys(tickets', r)}
              /\ Len(new["ticket_data"]) = Cardinality(StoreKeys(tickets', r))
              /\ ~last'["error"]
      ]_vars

\* a check for updates that fetched two tickets for a release without a
\* snapshot: the two rows are the baseline and nothing was notified
C4_Witness ==
    /\ last["op"] = "check" /\ ~last["error"]
    /\ last["snapshots_added"] = 1 /\ last["created"] = 0
    /\ Len(snapshots) = 1
    /\ Len(snapshots[1]["ticket_data"]) = 2
    /\ Range(snapshots[1]["ticket_data"]) = {tickets[k] : k \in DOMAIN tickets}
    /\ notifications = <<>>

----------------------------------------------------------------------------
(* C5: notifications are deduplicated: a generation run that directly       *)
(* follows another generation run for the same release (the re-render after *)
(* a check for updates, a second render), so with the same latest snapshot  *)
(* and the same Ticket Store, adds no notification: every change it detects *)
(* has its notification already.                                            *)
C5_RepeatedGenerationAddsNothing ==
    [][ (last["op"] \in {"render", "check"} /\ last'["op"] = "render"
         /\ last'["release_id"] = last["release_id"]
         /\ snapshots' = snapshots /\ tickets' = tickets)
        => notifications' = notifications ]_vars

----------------------------------------------------------------------------
----------------------------------------------------------------------------
(* C7: a run of the retention job keeps a notification iff it is not (read  *)
(* and created before the cutoff, now minus the retention window), and      *)
(* keeps a convention violation iff it is not (resolved and detected before *)
(* the cutoff); and no step of the system, retention runs included, removes *)
(* an unread notification or an unresolved violation.                       *)
C7_RetentionInvariant ==
    [][ /\ last'["op"] = "cleanup" =>
             LET cutoff_date == now - retention_days
             IN  /\ Range(notifications') =
                       {n \in Range(notifications) :
                           ~(n["is_read"] /\ n["created_at"] < cutoff_date)}
                 /\ Range(violations') =
                       {v \in Range(violations) :
                           ~(v["resolved"] /\ v["detected_at"] < cutoff_date)}
                 /\ Len(notifications') = Cardinality(Range(notifications'))
                 /\ Len(violations') = Cardinality(Range(violations'))
        /\ \A n \in Range(notifications) :
              ~n["is_read"] => \E m \in Range(notifications') : m["id"] = n["id"]
        /\ \A v \in Range(violations) :
              ~v["resolved"] => v \in Range(violations')
      ]_vars

\* a retention run that deleted a read notification and the resolved
\* violation, after which an unread notification older than the cutoff and the
\* unresolved violation are still there
C7_Witness ==
    /\ last["op"] = "cleanup"
    /\ last["created"] < 0
    /\ \E n \in Range(notifications) :
          ~n["is_read"] /\ n["created_at"] < now - retention_days
    /\ Len(violations) = 1
    /\ ~violations[1]["resolved"] /\ violations[1]["detected_at"] < now - retention_days

----------------------------------------------------------------------------
(* C8: start() on a running scheduler creates no thread and leaves exactly  *)
(* one loop thread alive; stop() on a stopped scheduler leaves the flag,    *)
(* the thread handle and the threads as they are.  (A call is a step that   *)
(* changes last; the steps of the loop threads leave it alone.)             *)
C8_StartStopIdempotent ==
    [][ /\ (last' # last /\ last'["op"] = "start" /\ running) =>
              /\ thread_pc' = thread_pc
              /\ scheduler_thread' = scheduler_thread
              /\ running'
              /\ Cardinality(Alive') = 1
        /\ (last' # last /\ last'["op"] = "stop" /\ ~running) =>
              /\ thread_pc' = thread_pc
              /\ scheduler_thread' = scheduler_thread
              /\ ~running'
      ]_vars

----------------------------------------------------------------------------
(* C9: at no moment are two loop threads polling jobs (in run_pending or in *)
(* a job it started).                                                       *)
Polling == {t \in Threads : thread_pc[t] \in {"run_pending", "job"}}

C9_SingleBackgroundLoop == Cardinality(Polling) <= 1

----------------------------------------------------------------------------
(* C10: stop() clears the flag; the join it waits in returns, whether the   *)
(* loop exited or not; no step but the job's own end takes a thread out of  *)
(* a job, and stop() moves no thread; and whenever the flag is clear, either *)
(* a start() sets it again or every loop thread eventually exits.           *)
C10_CooperativeStop ==
    /\ [][(last' # last /\ last'["op"] = "stop") => ~running']_vars
    /\ [][\A t \in Threads :
            thread_pc[t] = "job" => thread_pc'[t] \in {"job", "sleep"}]_vars
    /\ [][last' # last => thread_pc' \in {thread_pc, Append(thread_pc, "test")}]_vars
    /\ (caller_pc = "joining") ~> (caller_pc = "idle")
    /\ [](~running => <>(running \/ Alive = {}))

\* stop() returned on the join timeout while the loop slept, and the loop has
\* since seen the flag and exited
C10_Witness ==
    /\ last["op"] = "stop_timeout"
    /\ caller_pc = "idle"
    /\ ~running
    /\ scheduler_thread # 0
    /\ thread_pc[scheduler_thread] = "exited"

----------------------------------------------------------------------------
(* Vocabulary of the job properties *)

WeeklyOps == {"weekly", "weekly_fetch_failed", "weekly_fetch_none"}
JobOps == WeeklyOps \cup {"cleanup", "cleanup_failed"}

\* the step is the end of a job: a loop thread leaves "job"
JobStep == \E t \in Threads : thread_pc[t] = "job" /\ thread_pc'[t] # "job"

(* C11: a job that failed (its exception was caught and logged) lets        *)
(* nothing escape: the flag, the registered jobs and the set of live loop   *)
(* threads are as before and the thread that ran it goes to its sleep; a    *)
(* failure of run_pending itself sends the thread to the back-off sleep,    *)
(* from which it only returns to the loop test; a sleeping thread polls     *)
(* again unless the scheduler is stopped; and at every job slot both the    *)
(* weekly and the daily job can run, whatever failed before.                *)
C11_JobIsolation ==
    /\ [][ (JobStep /\ last'["op"] \in JobOps /\ last'["error"]) =>
              /\ ~last'["raised"]
              /\ running' = running
              /\ schedule_jobs' = schedule_jobs
              /\ Alive' = Alive
              /\ \A t \in Threads :
                    thread_pc'[t] # thread_pc[t] => thread_pc'[t] = "sleep"
         ]_vars
    /\ [][ \A t \in Threads :
              /\ (thread_pc[t] = "run_pending"
                    => thread_pc'[t] \in {"run_pending", "job", "sleep", "backoff"})
              /\ (thread_pc[t] = "backoff" => thread_pc'[t] \in {"backoff", "test"})
         ]_vars
    /\ \A t \in 1..MaxJobThreads :
          [](  (t \in Threads /\ thread_pc[t] \in {"sleep", "backoff"})
               => <>(~running \/ At(t, "run_pending")) )
    /\ [](\A t \in Threads : At(t, "job") =>
              /\ ENABLED JobCleanup(t, TRUE)
              /\ ENABLED (\E r \in SessionReleases, call \in TrackerCalls :
                              JobWeekly(t, r, call, FALSE)))

\* the weekly job failed and, with no start or stop in between, the loop is
\* in a job slot again
C11_Witness ==
    /\ last["op"] \in WeeklyOps /\ last["error"]
    /\ running
    /\ \E t \in Threads : At(t, "job")

----------------------------------------------------------------------------
----------------------------------------------------------------------------
(* C13: a firing of the weekly job that completes has upserted every        *)
(* fetched ticket, appended one snapshot of the release holding the fetched *)
(* list, and created one unread snapshot_created notification with ticket   *)
(* key SYSTEM; any firing creates at most that notification, only together  *)
(* with the snapshot, which is stored before it; a firing that failed       *)
(* creates none.                                                            *)
C13_WeeklyJobOrder ==
    [][ (JobStep /\ last'["op"] \in WeeklyOps) =>
          LET r       == last'["release_id"]
              fetched == last'["fetched"]
              grown   == SubSeq(snapshots', Len(snapshots) + 1, Len(snapshots'))
          IN  /\ SubSeq(snapshots', 1, Len(snapshots)) = snapshots
              /\ Len(grown) <= 1
              /\ Len(Added) <= Len(grown)
              /\ last'["error"] => Added = <<>>
              /\ ~last'["error"] =>
                    /\ \A i \in 1..Len(fetched) :
                          /\ fetched[i]["key"] \in StoreKeys(tickets', r)
                          /\ \A f \in WatchedFields :
                                tickets'[fetched[i]["key"]][f] = fetched[i][f]
                    /\ Len(grown) = 1
                    /\ grown[1]["ticket_data"] = fetched
                    /\ Len(Added) = 1
              /\ \A i \in 1..Len(Added) :
                    /\ Added[i]["notification_type"] = "snapshot_created"
                    /\ Added[i]["ticket_key"] = "SYSTEM"
                    /\ Added[i]["release_id"] = r
                    /\ ~Added[i]["is_read"]
                    /\ grown[1]["release_id"] = r
                    /\ grown[1]["snapshot_date"] < Added[i]["created_at"]
                    /\ Added[i]["metadata"]["ticket_count"] = Len(grown[1]["ticket_data"])
      ]_vars

\* a completed firing: one ticket fetched and stored, one snapshot, one
\* notification
C13_Witness ==
    /\ last["op"] = "weekly" /\ ~last["error"]
    /\ last["snapshots_added"] = 1 /\ last["created"] = 1
    /\ Len(last["fetched"]) = 1
    /\ "A" \in DOMAIN tickets
    /\ snapshots[Len(snapshots)]["ticket_data"] = last["fetched"]
    /\ notifications[Len(notifications)]["notification_type"] = "snapshot_created"
    /\ \E t \in Threads : At(t, "sleep")

----------------------------------------------------------------------------
(* The Ticket Store under upserts (SpecStore) *)

\* the columns a ticket_data dict can name
TicketDataFields ==
    {"key", "release_id", "summary", "status", "assignee", "priority", "issue_type",
     "reporter", "created_date", "updated_date", "raw_data"}

\* the step is a call of upsert_jira_ticket that returned True
UpsertSucceeded == last'["op"] = "upsert" /\ ~last'["error"]

\* the dict the last upsert was called with
UpsertedData == last["fetched"][1]

\* C17 as stated: after a successful upsert of t the row of t's key equals t
\* on every field, a field t leaves out is stored as absent (None), and the
\* rows of all other keys are unchanged
C17_UpsertStoresTicketAsGiven ==
    [][UpsertSucceeded =>
        LET td == UpsertedData'
            k  == td["key"]
        IN  /\ DOMAIN tickets' = DOMAIN tickets \cup {k}
            /\ \A f \in TicketDataFields : tickets'[k][f] = Get(td, f)
            /\ \A j \in DOMAIN tickets \ {k} : tickets'[j] = tickets[j]]_vars

\* C17 amended: after a successful upsert of t the row of t's key equals t
\* on every field t names; a field t leaves out is stored as None, except the
\* raw payload, which is stored as the empty payload {}; nothing is kept from
\* the prior row, last_synced is the time of the write, and the rows of all
\* other keys are unchanged
C17_UpsertReplacesRow ==
    [][UpsertSucceeded =>
        LET td == UpsertedData'
            k  == td["key"]
        IN  /\ DOMAIN tickets' = DOMAIN tickets \cup {k}
            /\ DOMAIN tickets'[k] = TicketDataFields \cup {"last_synced"}
            /\ \A f \in TicketDataFields \ {"raw_data"} : tickets'[k][f] = Get(td, f)
            /\ tickets'[k]["raw_data"] =
                    (IF "raw_data" \in DOMAIN td THEN td["raw_data"] ELSE empty_dict)
            /\ tickets'[k]["last_synced"] = now
            /\ \A j \in DOMAIN tickets \ {k} : tickets'[j] = tickets[j]]_vars

\* a write that names only key, release and date has replaced a row of its
\* key, beside the row of another key
C17_Witness ==
    /\ last["op"] = "upsert" /\ ~last["error"] /\ last["id"] = 1
    /\ UpsertedData \in PartialTicketData
    /\ tickets[UpsertedData["key"]]["summary"] = Null
    /\ tickets[UpsertedData["key"]]["raw_data"] = empty_dict
    /\ DOMAIN tickets # {UpsertedData["key"]}

\* the releases get_tickets_for_release returns key k for
ReleasesListing(store, k) ==
    {r \in Releases : k \in TicketKeys(get_tickets_for_release(store, r))}

\* the step is a call of upsert_jira_ticket
UpsertCalled == last'["op"] \in {"upsert", "upsert_db_failed"}

\* C18: every list get_tickets_for_release returns has one row per key and
\* every stored key is listed for exactly one release; a successful upsert of
\* a key makes its release the one the key is listed for and leaves the
\* listing of every other key alone; a failed upsert leaves every listing alone
C18_OneReleasePerKey ==
    /\ [](/\ \A r \in Releases :
                LET list == get_tickets_for_release(tickets, r)
                IN  Len(list) = Cardinality(TicketKeys(list))
          /\ \A k \in DOMAIN tickets : Cardinality(ReleasesListing(tickets, k)) = 1
          /\ \A j \in Keys \ DOMAIN tickets : ReleasesListing(tickets, j) = {})
    /\ [][UpsertCalled =>
            \A k \in Keys :
                ReleasesListing(tickets', k) =
                    IF UpsertSucceeded /\ k = UpsertedData'["key"]
                    THEN {UpsertedData'["release_id"]}
                    ELSE ReleasesListing(tickets, k)]_vars

\* key A, which had a row, was written for the other release, beside key B
C18_Witness ==
    /\ last["op"] = "upsert" /\ ~last["error"] /\ last["id"] = 1
    /\ UpsertedData["key"] = "A" /\ UpsertedData["release_id"] = "week2025.31"
    /\ ReleasesListing(tickets, "A") = {"week2025.31"}
    /\ ReleasesListing(tickets, "B") = {"week2025.30"}

\* C19: upsert_jira_ticket never raises; it returns False exactly when the
\* database failed or the dict has no key or no release id (or a null one),
\* and then the Ticket Store is unchanged; when it returns True the row of
\* the key is in the store with the release written
C19_UpsertNeverRaises ==
    [][UpsertCalled =>
        LET td == UpsertedData'
            malformed == \/ ~({"key", "release_id"} \subseteq DOMAIN td)
                         \/ td["release_id"] = Null
        IN  /\ ~last'["raised"]
            /\ last'["error"] <=> (last'["op"] = "upsert_db_failed" \/ malformed)
            /\ last'["error"] => tickets' = tickets
            /\ ~last'["error"] =>
                    /\ td["key"] \in DOMAIN tickets'
                    /\ tickets'[td["key"]]["release_id"] = td["release_id"]]_vars

\* a dict without key was refused, after a failed database had refused a
\* write: the stored rows are as they were
C19_Witness ==
    /\ last["op"] = "upsert" /\ last["error"] /\ ~last["raised"]
    /\ "key" \notin DOMAIN UpsertedData
    /\ tickets # <<>>

\* C20 as stated: no store operation raises to its caller
C20_NoStoreOperationRaises == ~last["raised"]

----------------------------------------------------------------------------
(* The Health Monitor (SpecHealth) *)

\* the step is a call of get_system_health
HealthCalled == last'["op"] = "health"

\* the report the last call of get_system_health returned
Report == health[1]

HealthyCount(report) ==
    Cardinality({c \in {"database", "scheduler", "data_freshness"} : report[c]["healthy"]})

\* C14: the report of get_system_health has a boolean for each of database,
\* scheduler and data freshness; overall healthy is true exactly when the
\* three are, and the score is the number of healthy components over three
C14_OverallIsConjunction ==
    health # <<>> =>
        /\ \A c \in {"database", "scheduler", "data_freshness"} :
                Report[c]["healthy"] \in BOOLEAN
        /\ Report["overall"]["healthy"] <=>
                (/\ Report["database"]["healthy"]
                 /\ Report["scheduler"]["healthy"]
                 /\ Report["data_freshness"]["healthy"])
        /\ Report["overall"]["score"] = <<HealthyCount(Report), 3>>

\* two of the three components are healthy: the scheduler is not running
C14_Witness ==
    /\ health # <<>>
    /\ Report["database"]["healthy"]
    /\ ~Report["scheduler"]["healthy"]
    /\ Report["data_freshness"]["healthy"]
    /\ ~Report["overall"]["healthy"]
    /\ Report["overall"]["score"] = <<2, 3>>

\* C15: a call of get_system_health made when the Ticket Store has no row
\* of the current release (and the database answers) reports data freshness
\* unhealthy with a reason string, and overall unhealthy
C15_EmptyReleaseIsUnhealthyWithReason ==
    [][(HealthCalled /\ ~last'["error"] /\ StoreKeys(tickets, last'["release_id"]) = {}) =>
        /\ ~Report'["data_freshness"]["healthy"]
        /\ "reason" \in DOMAIN Report'["data_freshness"]
        /\ Report'["data_freshness"]["reason"] = "No tickets found for current release"
        /\ ~Report'["overall"]["healthy"]]_vars

\* the current release has no row while the other release has, database and
\* scheduler are healthy, and the report gives the reason
C15_Witness ==
    /\ last["op"] = "health" /\ health # <<>>
    /\ tickets # <<>> /\ StoreKeys(tickets, last["release_id"]) = {}
    /\ Report["database"]["healthy"] /\ Report["scheduler"]["healthy"]
    /\ "reason" \in DOMAIN Report["data_freshness"]
    /\ ~Report["overall"]["healthy"]

\* C16 as stated: a call of get_system_health leaves the three stores, the
\* running flag and the registered jobs as they were
C16_HealthIsReadOnly ==
    [][HealthCalled =>
        UNCHANGED <<tickets, snapshots, notifications, running, schedule_jobs>>]_vars

----------------------------------------------------------------------------
(* The Snapshot Store (SpecSnapshots) *)

\* the snapshots of a release, in insertion order
SnapshotsOf(snaps, release_id) ==
    LET mine(sn) == sn["release_id"] = release_id
    IN  SelectSeq(snaps, mine)

\* C21: a successful create_weekly_snapshot adds one row, of its release and
\* with the ticket list it was given, after the rows that were there, which
\* stay as they were; a failed one and an upsert into the Ticket Store leave
\* the snapshots as they were
C21_SnapshotsAppendOnly ==
    [][/\ (last'["op"] = "create_snapshot" /\ last' # last) =>
            /\ Len(snapshots') = Len(snapshots) + 1
            /\ Len(SnapshotsOf(snapshots', last'["release_id"]))
                    = Len(SnapshotsOf(snapshots, last'["release_id"])) + 1
            /\ SubSeq(snapshots', 1, Len(snapshots)) = snapshots
            /\ snapshots'[Len(snapshots')]["release_id"] = last'["release_id"]
            /\ snapshots'[Len(snapshots')]["ticket_data"] = last'["fetched"]
       /\ (last'["op"] = "create_snapshot_db_failed" \/ UpsertCalled) =>
            snapshots' = snapshots]_vars

\* a snapshot of the Ticket Store holds a row as it was, the Ticket Store
\* holds a later write of the key, and a second snapshot of the release
\* follows the first
C21_Witness ==
    /\ Len(snapshots) = 2
    /\ snapshots[1]["release_id"] = snapshots[2]["release_id"]
    /\ snapshots[1]["ticket_data"] # <<>>
    /\ snapshots[1]["ticket_data"][1]["key"] = "A"
    /\ snapshots[1]["ticket_data"][1]["status"] = "To Do"
    /\ "A" \in DOMAIN tickets /\ tickets["A"]["status"] = "Done"
    /\ last["op"] = "create_snapshot"

\* C22: get_last_snapshot(release) returns None exactly when the release has
\* no snapshot; otherwise it returns a row of the table, of that release,
\* whose capture timestamp no snapshot of the release exceeds
C22_LastSnapshotIsLatestOfRelease ==
    [][last'["op"] = "get_last_snapshot" =>
        LET r     == last'["release_id"]
            found == last'["fetched"]
            mine  == SnapshotsOf(snapshots, r)
        IN  /\ (found = <<>>) <=> (mine = <<>>)
            /\ found # <<>> =>
                 /\ found[1]["release_id"] = r
                 /\ \E i \in 1..Len(mine) :
                        /\ mine[i]["id"] = found[1]["id"]
                        /\ mine[i]["snapshot_date"] = found[1]["snapshot_date"]
                        /\ mine[i]["ticket_data"] = found[1]["ticket_data"]
                 /\ \A i \in 1..Len(mine) :
                        mine[i]["snapshot_date"] <= found[1]["snapshot_date"]]_vars

\* the release asked for has a snapshot, another release has a later one,
\* and the call returned the former
C22_Witness ==
    /\ last["op"] = "get_last_snapshot" /\ last["fetched"] # <<>>
    /\ \E i \in 1..Len(snapshots) :
            /\ snapshots[i]["release_id"] # last["release_id"]
            /\ snapshots[i]["snapshot_date"] > last["fetched"][1]["snapshot_date"]

\* C23 as stated: the snapshot get_last_snapshot returns for a release is
\* the one whose write was committed last (the row with the greatest id)
C23_LastCommittedIsLatest ==
    \A r \in Releases : \A sn \in last_snapshots(snapshots, r) :
        \A i \in 1..Len(snapshots) :
            snapshots[i]["release_id"] = r => snapshots[i]["id"] <= sn["id"]

----------------------------------------------------------------------------
(* The Notification Store (SpecNotifications) *)

NotificationIds(rows) == {rows[i]["id"] : i \in 1..Len(rows)}

\* C24: the list get_notifications(release, show_read) returns holds each
\* notification of the release once (with show_read false: each unread one)
\* and nothing else, in order of decreasing created_at; a notification just
\* created is unread
C24_ListingOfARelease ==
    [][/\ last'["op"] = "get_notifications" =>
            LET list == last'["fetched"]
                due  == {i \in 1..Len(notifications) :
                            /\ notifications[i]["release_id"] = last'["release_id"]
                            /\ (last'["id"] = 1 \/ ~notifications[i]["is_read"])}
            IN  /\ \A j \in 1..Len(list) : list[j]["release_id"] = last'["release_id"]
                /\ Len(list) = Cardinality(due)
                /\ NotificationIds(list) = {notifications[i]["id"] : i \in due}
                /\ \A j \in 1..Len(list) :
                        list[j] = RowsWithId(notifications, list[j]["id"])[1]
                /\ \A a, b \in 1..Len(list) :
                        a < b => list[a]["created_at"] >= list[b]["created_at"]
       /\ (last'["op"] = "create_notification" /\ last' # last) =>
            /\ Len(notifications') = Len(notifications) + 1
            /\ ~notifications'[Len(notifications')]["is_read"]]_vars

\* the listing of the unread notifications of a release left out the read
\* one and put the later of the two others before the earlier
C24_Witness ==
    /\ last["op"] = "get_notifications" /\ last["id"] = 0
    /\ Len(last["fetched"]) = 2
    /\ last["fetched"][1]["created_at"] > last["fetched"][2]["created_at"]
    /\ \E i \in 1..Len(notifications) :
            /\ notifications[i]["release_id"] = last["release_id"]
            /\ notifications[i]["is_read"]

\* the rows of a table after an operation, for the row of each id before it
StillRead(before, after) ==
    \A i \in 1..Len(before), j \in 1..Len(after) :
        (before[i]["id"] = after[j]["id"] /\ before[i]["is_read"]) => after[j]["is_read"]

\* C25: mark_notification_read returns success and sets the read flag of
\* the notification named, changing nothing else; when that notification is
\* read already (or there is none) the store is unchanged; marking again
\* changes nothing; and no step turns a read notification back to unread
C25_MarkReadIdempotent ==
    [][/\ (last'["op"] = "mark_notification_read" /\ last' # last) =>
            /\ ~last'["error"]
            /\ Len(notifications') = Len(notifications)
            /\ \A i \in 1..Len(notifications) :
                    notifications'[i] =
                        [notifications[i] EXCEPT !["is_read"] =
                            @ \/ notifications[i]["id"] = last'["id"]]
            /\ (\A i \in 1..Len(notifications) :
                    notifications[i]["id"] = last'["id"] => notifications[i]["is_read"])
                => notifications' = notifications
            /\ mark_notification_read(notifications', last'["id"]) = notifications'
       /\ StillRead(notifications, notifications')]_vars

\* a notification that was read was marked read again, beside an unread one
C25_Witness ==
    /\ last["op"] = "mark_notification_read" /\ ~last["error"]
    /\ last["fetched"] # <<>> /\ last["fetched"][1]["is_read"]
    /\ \E i \in 1..Len(notifications) : ~notifications[i]["is_read"]

----------------------------------------------------------------------------
(* The Diff Engine on tickets that lack fields (SpecMalformed) *)

\* C26 as stated: a generation run against a latest snapshot reports no
\* error and adds every event due, whatever fields the tickets lack: one
\* new_ticket per key only in the Ticket Store, one removed_ticket per key
\* only in the snapshot, one field_changed per differing watched field of a
\* key in both, a missing field counting as absent
C26_MalformedTicketsAreDiffed ==
    [][(/\ last'["op"] \in {"render", "check"}
        /\ last_snapshots(snapshots, last'["release_id"]) # {}) =>
          LET r    == last'["release_id"]
              prev == LatestData(snapshots, r)
              A    == TicketKeys(prev)
              B    == StoreKeys(tickets', r)
          IN  /\ ~last'["error"]
              /\ \A k \in Keys :
                    CountOf(Added, "new_ticket", k) = (IF k \in B \ A THEN 1 ELSE 0)
              /\ \A k \in Keys :
                    CountOf(Added, "removed_ticket", k) = (IF k \in A \ B THEN 1 ELSE 0)
              /\ \A k \in A \cap B :
                    CountOf(Added, "field_changed", k)
                        = Cardinality(Differing(TicketOf(prev, k), tickets'[k]))
      ]_vars

----------------------------------------------------------------------------
(* The releases table (SpecReleases) *)

\* C27 as stated: create_release with the identifier of a release that has
\* a row leaves the start date, the end date and the creation timestamp of
\* that row as they were
C27_ReleaseImmutable ==
    [][(last'["op"] = "create_release" /\ last'["release_id"] \in DOMAIN releases) =>
        LET r == last'["release_id"]
        IN  /\ releases'[r]["start_date"] = releases[r]["start_date"]
            /\ releases'[r]["end_date"] = releases[r]["end_date"]
            /\ releases'[r]["created_at"] = releases[r]["created_at"]]_vars

----------------------------------------------------------------------------
(* The weekly job followed by a generation (Spec) *)

\* C28 as stated: a notification generation that runs right after a
\* successful weekly snapshot job of the same release creates no
\* notification, the snapshot just recorded and the rows of the Ticket Store
\* agreeing on keys and watched fields
C28_NothingNewAfterWeeklySnapshot ==
    [][(/\ last["op"] = "weekly" /\ ~last["error"]
        /\ last'["op"] = "render" /\ last'["release_id"] = last["release_id"]) =>
          LET r == last["release_id"]
          IN  /\ last'["created"] = 0
              /\ TicketKeys(LatestData(snapshots, r)) = StoreKeys(tickets, r)
              /\ \A k \in StoreKeys(tickets, r) :
                    Differing(TicketOf(LatestData(snapshots, r), k), tickets[k]) = {}
      ]_vars

----------------------------------------------------------------------------
(* The retention job and the snapshots (SpecRetention) *)

\* C29 as stated: a run of the retention job leaves, for every release that
\* had a snapshot, the latest snapshot of the release in place
C29_RetentionKeepsLatestSnapshot ==
    [][last'["op"] = "cleanup" =>
        \A r \in Releases :
            last_snapshots(snapshots, r) # {} =>
                /\ last_snapshots(snapshots', r) # {}
                /\ \A sn \in last_snapshots(snapshots, r) :
                        \E i \in 1..Len(snapshots') : snapshots'[i]["id"] = sn["id"]]_vars

----------------------------------------------------------------------------
(* The rows of the Ticket Store: fetch and upsert cycles of two releases,  *)
(* the weekly job and the retention job, with time passing by more than    *)
(* the retention window                                                    *)

MaxKeptNotifications == 1
MaxKeptSnapshots == 1
MaxKeptTime == 33

\* what the tracker returns for a release: A and B, or A alone
KeptResults ==
    { <<JiraTicket("A", "To Do", Null, 1), JiraTicket("B", "Done", "john.doe", 0)>>,
      <<JiraTicket("A", "In Progress", Null, 2)>> }

KeptWithinBounds ==
    /\ Len(notifications) <= MaxKeptNotifications
    /\ Len(snapshots) <= MaxKeptSnapshots
    /\ now <= MaxKeptTime

TicketsNext ==
    \/ \E r \in Releases : ShowNotifications(r) /\ KeptWithinBounds'
    \/ \E r \in Releases, fetched \in KeptResults :
            CheckForUpdates(r, fetched) /\ KeptWithinBounds'
    \/ \E r \in SessionReleases, fetched \in KeptResults :
            WeeklySnapshotJob(r, fetched) /\ KeptWithinBounds'
    \/ CleanupOldData
    \/ Tick(retention_days + 1) /\ KeptWithinBounds'

SpecTickets == Init /\ [][TicketsNext]_vars

\* the step is a fetch and upsert cycle (the page's or the weekly job's)
FetchCycle == last'["op"] \in {"check", "weekly"}

\* C30: no step removes a row of the Ticket Store; a key leaves the listing of
\* a release only in a fetch cycle of another release that upserts the key,
\* and a fetch cycle keeps the tickets of its release that the fetch lacks
C30_TicketRowsAreNeverRemoved ==
    [][/\ DOMAIN tickets \subseteq DOMAIN tickets'
       /\ \A r \in Releases :
            \A k \in TicketKeys(get_tickets_for_release(tickets, r)) :
                k \notin TicketKeys(get_tickets_for_release(tickets', r)) =>
                    /\ FetchCycle
                    /\ last'["release_id"] # r
                    /\ k \in TicketKeys(upsertable_prefix(last'["fetched"]))
                    /\ k \in TicketKeys(get_tickets_for_release(tickets',
                                                                last'["release_id"]))
       /\ FetchCycle =>
            \A k \in TicketKeys(get_tickets_for_release(tickets, last'["release_id"])) :
                k \notin TicketKeys(last'["fetched"]) =>
                    k \in TicketKeys(get_tickets_for_release(tickets',
                                                             last'["release_id"]))
      ]_vars

\* a fetch cycle of a release has run whose fetch lacks B, and B, written
\* before the retention cutoff, is still listed for the release
C30_Witness ==
    /\ last["op"] \in {"check", "weekly"}
    /\ "B" \notin TicketKeys(last["fetched"])
    /\ "B" \in TicketKeys(get_tickets_for_release(tickets, last["release_id"]))
    /\ tickets["B"]["last_synced"] < now - retention_days

====
